---- MODULE Spec2Model ----
(***************************************************************************)
(* Model of the operation executor of the e2e-runner operator package:     *)
(* OperationExecutor.execute / executeCommand (src/src/executor.ts) and    *)
(* the command registry (registry.ts).                                     *)
(*                                                                         *)
(* JavaScript is single-threaded: other code (a registerCommand call by a  *)
(* collaborator) runs only while execute is suspended at an await.  The    *)
(* program counter pc names the positions of execute; the positions where  *)
(* it is suspended are listed in Suspended.                                *)
(*                                                                         *)
(* Not modelled: durations, timestamps, the url of an error context and    *)
(* the logger calls; none of them is read by the control flow.             *)
(***************************************************************************)
EXTENDS Integers, Sequences, FiniteSets, TLC

\* ------------------------------------------------------------------ bounds
\* Longest command list of a configuration.
MaxCmds == 2
\* Most results a context accumulates over the execute calls made with it.
MaxResults == 3
\* Most registerCommand calls of a run of the registry on its own.
MaxRegs == 3
\* Most fields in which a document differs from the plain document.
MaxDifferences == 2

\* ------------------------------------------------------------- value sets
NoWindow == "undefined"
\* What an executor is given in place of a window when there is none.
NullWindow == "null"
Windows == {"w1", "w2", "w3"}
NoExecutor == "undefined"
ExecutorFns == {"e1", "e2"}
CommandNames == {"navigate", "submit", "fill"}
\* The registrations made while the model runs: a new executor function for
\* a name that has none yet (submit) or that has one already (fill).
LateNames == {"submit", "fill"}
LateExecutorFns == {"e2"}
NoRequestResult == "undefined"
NoRemapper == "undefined"
NoResult == [kind |-> "none"]
NoReturn == [kind |-> "none"]

\* A thrown value: an Error with a message, an Error with an empty message,
\* or a value that is no object at all (throw null, throw undefined).
NullThrown == [isNullish |-> TRUE, message |-> ""]
ThrownValues ==
    {[isNullish |-> FALSE, message |-> "boom"],
     [isNullish |-> FALSE, message |-> ""],
     NullThrown}

\* The request/session state objects of the heap: the one the caller put in
\* the context, and the one a window carries.  w1 carries none, w2 carries
\* one without a remapper, w3 one with its own remapper.
WindowsWithRequestResult == {"w2", "w3"}
RequestResultRefs == {"ctx0"} \cup WindowsWithRequestResult
WindowRequestResult(w) ==
    IF w \in WindowsWithRequestResult THEN w ELSE NoRequestResult

\* All command lists of 1..MaxCmds commands (the schema rejects an empty one).
RECURSIVE SeqsUpTo(_)
SeqsUpTo(n) ==
    IF n = 0 THEN {<<>>}
    ELSE LET shorter == SeqsUpTo(n - 1)
         IN  shorter \cup
             {Append(s, c) : s \in {t \in shorter : Len(t) = n - 1}, c \in CommandNames}
Configs == {[name |-> "op", commands |-> s] : s \in SeqsUpTo(MaxCmds) \ {<<>>}}

VARIABLES
    registry,      \* registry.ts: Map<string, CommandExecutorFn>
    config,        \* execute's parameter config
    ctx,           \* execute's parameter context (ExecutionContext)
    heap,          \* remapper field of each request/session state object
    currentWindow, \* execute's local currentWindow
    i,             \* execute's loop variable
    result,        \* execute's local result
    pc,            \* position of execute
    ret,           \* the ExecutionResult execute returned last
    base,          \* history: length of context.results when execute was called
    calls,         \* history: the executor invocations of this execute call
    produced,      \* history: the results executeCommand produced, in order
    pending,       \* history: indices whose executor call has not settled
    released,      \* history: windows whose happyDOM.abort() was called
    abortFailed,   \* history: windows whose happyDOM.abort() rejected
    schemaModule,  \* the module config-loader.ts's import of './schema' loads
    env,           \* process.env, as far as the documents refer to it
    input,         \* the call made on the loader or on executeOperation
    outcome,       \* what that call returned or threw
    regLog,        \* history: the registerCommand calls, in order
    caller,        \* the partial context executeOperation was called with
    peer           \* the executeOperation call that is not running now

\* The variables of execute and of the registry.
xvars == <<registry, config, ctx, heap, currentWindow, i, result, pc, ret,
           base, calls, produced, pending, released, abortFailed>>

\* The variables of the loader, and the log of the registrations.
lvars == <<schemaModule, env, input, outcome, regLog, caller, peer>>

vars == <<registry, config, ctx, heap, currentWindow, i, result, pc, ret,
          base, calls, produced, pending, released, abortFailed,
          schemaModule, env, input, outcome, regLog, caller, peer>>

\* ------------------------------------------------------------ executeCommand
\* Mutant of UnknownCommandResult: reported as a validation error.
UnknownCommandResult_WrongType(name, commandIndex) ==
    [command |-> name, commandIndex |-> commandIndex, success |-> FALSE,
     errType |-> "validation_error",
     message |-> <<"Unknown command type: ", name>>,
     newWindow |-> NoWindow]

\* Mutant of UnknownCommandResult: a one-based commandIndex.
UnknownCommandResult_OneBased(name, commandIndex) ==
    [command |-> name, commandIndex |-> commandIndex + 1, success |-> FALSE,
     errType |-> "execution_error",
     message |-> <<"Unknown command type: ", name>>,
     newWindow |-> NoWindow]

\* executor.ts:113-127: the result synthesized for an unregistered command.
UnknownCommandResult(name, commandIndex) ==
    [command |-> name, commandIndex |-> commandIndex, success |-> FALSE,
     errType |-> "execution_error",
     message |-> <<"Unknown command type: ", name>>,
     newWindow |-> NoWindow]

\* executor.ts:131-147: the result synthesized in the catch block.
\* error.message || 'Unknown error'
CaughtResult(name, commandIndex, error) ==
    [command |-> name, commandIndex |-> commandIndex, success |-> FALSE,
     errType |-> "execution_error",
     message |-> <<IF error.message # "" THEN error.message ELSE "Unknown error">>,
     newWindow |-> NoWindow]

\* executor.ts:132: the catch block reads error.message before it builds the
\* result; on a thrown null or undefined that read throws a TypeError out of
\* the catch block, so executeCommand rejects.
CatchBlockThrows(error) == error.isNullish

\* The window an executor creates to replace the one it was given.
FreshWindow(window) ==
    CASE window = NoWindow -> "w1"
      [] window = "w1" -> "w2"
      [] window = "w2" -> "w3"
      [] OTHER -> "w1"

\* What a registered executor may return for the command at commandIndex
\* (registry.ts:14-19, CommandExecutorFn): a CommandResult of its own making.
\* The executor is given commandIndex and normally echoes it; nothing makes
\* it do so.  Its data may carry a replacement window (data.newWindow).
ExecutorReturnValues(name, commandIndex, window) ==
    LET fresh == {FreshWindow(window)}
        ok(ci, nw) == [command |-> name, commandIndex |-> ci, success |-> TRUE,
                       errType |-> "none", message |-> <<>>, newWindow |-> nw]
        ko(ci, nw) == [command |-> name, commandIndex |-> ci, success |-> FALSE,
                       errType |-> "selector_not_found",
                       message |-> <<"Element not found">>, newWindow |-> nw]
    IN  {ok(commandIndex, NoWindow), ko(commandIndex, NoWindow),
         ok(commandIndex + 1, NoWindow)}
        \cup {ok(commandIndex, nw) : nw \in fresh}
        \cup {ko(commandIndex, nw) : nw \in fresh}

\* ------------------------------------------------------------------ registry
\* Mutant of RegistrySet: the first registration of a name is kept.
RegistrySet_FirstWins(reg, name, executor) ==
    IF reg[name] = NoExecutor THEN [reg EXCEPT ![name] = executor] ELSE reg

\* registry.ts:23-25 registerCommand: registry.set(name, executor).
RegistrySet(reg, name, executor) == [reg EXCEPT ![name] = executor]

\* registry.ts:27-29 getCommandExecutor: registry.get(name).
getCommandExecutor(name) == registry[name]

\* registry.ts:31-33 getRegisteredCommands.
getRegisteredCommands == {n \in CommandNames : registry[n] # NoExecutor}

\* ------------------------------------------------------------ execute, parts
\* executor.ts:43: the command names after which a window may be replaced.
TransitionCommands == {"navigate", "click", "submit"}

\* Mutants of ShouldReplaceWindow: only navigate replaces the window; a
\* failed result replaces it too.
ShouldReplaceWindow_NavigateOnly(backend, name, r) ==
    /\ backend = "happy-dom"
    /\ r.success
    /\ name = "navigate"
    /\ r.newWindow # NoWindow
ShouldReplaceWindow_IgnoreSuccess(backend, name, r) ==
    /\ backend = "happy-dom"
    /\ name \in {"navigate", "click", "submit"}
    /\ r.newWindow # NoWindow

\* executor.ts:43: the condition of the window replacement.
ShouldReplaceWindow(backend, name, r) ==
    /\ backend = "happy-dom"
    /\ r.success
    /\ name \in TransitionCommands
    /\ r.newWindow # NoWindow

\* Mutant of ShouldStop: the loop breaks after any result.
ShouldStop_Always(r, continueOnError) == TRUE

\* Mutants of ShouldStop: the loop never breaks; the flag is not consulted.
ShouldStop_Never(r, continueOnError) == FALSE
ShouldStop_IgnoreFlag(r, continueOnError) == ~r.success

\* executor.ts:71-78: the loop breaks on a failed result unless
\* context.continueOnError is set.
ShouldStop(r, continueOnError) == ~r.success /\ ~continueOnError

\* Mutant of ExecutorArgs: the executor is given the window the context had
\* when execute was called.
ExecutorArgs_FirstWindow(window, name, commandIndex, executor) ==
    [window |-> IF calls = <<>> THEN (IF window = NoWindow THEN NullWindow ELSE window)
                ELSE calls[1].window,
     command |-> name, commandIndex |-> commandIndex, executor |-> executor]

\* executor.ts:130: executor(window ?? null, command, context, commandIndex).
ExecutorArgs(window, name, commandIndex, executor) ==
    [window |-> IF window = NoWindow THEN NullWindow ELSE window,
     command |-> name, commandIndex |-> commandIndex, executor |-> executor]

\* executor.ts:81-98: the final statistics and the returned object.  Its
\* results field is context.results itself, the same array, not a copy.
CountSuccess(results) == Len(SelectSeq(results, LAMBDA r : r.success))
\* Mutant of CountError: counts only the results that carry an
\* execution_error.
CountError_ExecutionErrorsOnly(results) ==
    Len(SelectSeq(results, LAMBDA r : r.errType = "execution_error"))
CountError(results) == Len(SelectSeq(results, LAMBDA r : ~r.success))
\* Mutant of BuildExecutionResult: totalCommands taken from the results.
BuildExecutionResult_TotalFromResults(cfg, results) ==
    [kind |-> "ExecutionResult",
     success |-> (CountError(results) = 0),
     configName |-> cfg.name,
     totalCommands |-> Len(results),
     successCount |-> CountSuccess(results),
     errorCount |-> CountError(results)]
BuildExecutionResult(cfg, results) ==
    [kind |-> "ExecutionResult",
     success |-> (CountError(results) = 0),
     configName |-> cfg.name,
     totalCommands |-> Len(cfg.commands),
     successCount |-> CountSuccess(results),
     errorCount |-> CountError(results)]

\* The results field of the returned ExecutionResult (executor.ts:97).
RetResults == ctx.results

\* executor.ts:55-68: install the new window and carry the request/session
\* state over.  Gives the context and the heap after the replacement.
InstalledContext(c, newWindow) ==
    LET fromWindow == WindowRequestResult(newWindow)
    IN  [c EXCEPT !.window = newWindow,
                  !.requestResult =
                      IF fromWindow # NoRequestResult THEN fromWindow ELSE @]
\* Mutant of InstalledHeap: the previous remapper is not restored.
InstalledHeap_NoRestore(c, h, newWindow) ==
    IF WindowRequestResult(newWindow) # NoRequestResult THEN h ELSE h

\* executor.ts:60-67: the remapper of the new window's request/session state
\* after the replacement; the state object is changed in place.
InstalledHeap(c, h, newWindow) ==
    LET previousRemapper ==
            IF c.requestResult = NoRequestResult THEN NoRemapper
            ELSE h[c.requestResult]
        fromWindow == WindowRequestResult(newWindow)
    IN  IF /\ fromWindow # NoRequestResult
           /\ previousRemapper # NoRemapper
           /\ h[fromWindow] = NoRemapper
        THEN [h EXCEPT ![fromWindow] = previousRemapper]
        ELSE h

\* The command execute is working on.
Command == config.commands[i + 1]

\* Positions at which execute is suspended at an await, so that other code
\* of the process may run.
Suspended == {"awaitExecutor", "resume", "awaitAbort"}

\* executor.ts:71-98: from the failure check to the next iteration or to the
\* return, given the context and the window after the replacement step.
\* Runs without suspension.
FinishIteration(c, h, cw) ==
    /\ ctx' = c
    /\ heap' = h
    /\ currentWindow' = cw
    /\ result' = NoResult
    /\ IF ShouldStop(result, c.continueOnError) \/ i + 1 >= Len(config.commands)
       THEN /\ pc' = "done"
            /\ i' = i
            /\ ret' = BuildExecutionResult(config, c.results)
       ELSE /\ pc' = "loop"
            /\ i' = i + 1
            /\ ret' = ret

\* Mutant of PushResult: the result is put in front of the list (unshift).
PushResult_Unshift(results, r) == <<r>> \o results

\* Mutant of PushResult: the result is not in the list when the loop goes on.
PushResult_Missing(results, r) == results

\* executor.ts:40: context.results.push(result).
PushResult(results, r) == Append(results, r)

\* executor.ts:39: an entry of the history of the results executeCommand
\* produced: for which command, at which loop index, and whether the result
\* was returned by an executor, synthesized for an unknown command or
\* synthesized from a caught failure.
Produced(name, index, by, r) ==
    [command |-> name, index |-> index, by |-> by, result |-> r]

\* ---------------------------------------------------------- document values
\* A string is a sequence of pieces: literal text that holds no token, or a
\* token of the form ${getenv:<name>}, whatever the name is.
Lit(text) == [tk |-> "lit", text |-> text]
Ph(name) == [tk |-> "ph", text |-> name]

\* The values a parsed YAML document or an in-memory object is made of.  An
\* object carries its keys in insertion order, one item per key.
Str(pieces) == [kind |-> "string", str |-> pieces, num |-> 0, bool |-> FALSE,
                keys |-> <<>>, items |-> <<>>]
TextOf(text) == Str(<<Lit(text)>>)
Num(n) == [kind |-> "number", str |-> <<>>, num |-> n, bool |-> FALSE,
           keys |-> <<>>, items |-> <<>>]
Bool(b) == [kind |-> "boolean", str |-> <<>>, num |-> 0, bool |-> b,
            keys |-> <<>>, items |-> <<>>]
Null == [kind |-> "null", str |-> <<>>, num |-> 0, bool |-> FALSE,
         keys |-> <<>>, items |-> <<>>]
Arr(items) == [kind |-> "array", str |-> <<>>, num |-> 0, bool |-> FALSE,
               keys |-> <<>>, items |-> items]
Obj(keys, items) == [kind |-> "object", str |-> <<>>, num |-> 0, bool |-> FALSE,
                     keys |-> keys, items |-> items]

HasKey(v, key) == \E k \in 1..Len(v.keys) : v.keys[k] = key
Get(v, key) == v.items[CHOOSE k \in 1..Len(v.keys) : v.keys[k] = key]

\* process.env: a variable is unset, or set to a string (possibly empty).
VarNames == {"A", "B"}
EnvUnset == [set |-> FALSE, text |-> <<>>]
EnvSet(pieces) == [set |-> TRUE, text |-> pieces]
EnvValues == {EnvUnset, EnvSet(<<>>), EnvSet(<<Lit("fill")>>)}
Envs == [VarNames -> EnvValues]

\* ------------------------------------------------------------ interpolation
NoMissing == ""

\* The characters of the names the tokens of the model carry.
Chars(name) ==
    CASE name = "A" -> <<"A">>
      [] name = "B" -> <<"B">>
      [] name = "A_1" -> <<"A", "_", "1">>
      [] name = "_A" -> <<"_", "A">>
      [] name = "a" -> <<"a">>
      [] name = "Ab" -> <<"A", "b">>
      [] name = "1A" -> <<"1", "A">>
      [] OTHER -> <<>>
UpperCase == {"A", "B"}
LowerCase == {"a", "b"}
Digits == {"1"}

\* Mutant of MatchesEnvPattern: the pattern is matched case-insensitively
\* and accepts a digit in the first place.
MatchesEnvPattern_AnyWord(chars) ==
    /\ chars # <<>>
    /\ \A k \in 1..Len(chars) :
          chars[k] \in UpperCase \cup LowerCase \cup Digits \cup {"_"}

\* env-interpolator.ts:13: the name between '${getenv:' and '}' matches
\* [A-Z_][A-Z0-9_]*.  The closing brace must follow the name at once, so a
\* name with any other character in it gives no match at all.
MatchesEnvPattern(chars) ==
    /\ chars # <<>>
    /\ chars[1] \in UpperCase \cup {"_"}
    /\ \A k \in 2..Len(chars) : chars[k] \in UpperCase \cup Digits \cup {"_"}

\* The pieces String.replace calls the replacer for.
IsPlaceholder(piece) == piece.tk = "ph" /\ MatchesEnvPattern(Chars(piece.text))

\* env-interpolator.ts:31: process.env[varName]; a name the environment
\* does not hold reads as undefined.
EnvOf(e, name) == IF name \in DOMAIN e THEN e[name] ELSE EnvUnset

\* Mutant of interpolateEnv: an unset variable is replaced by the empty string.
RECURSIVE interpolateEnv_UnsetIsEmpty(_, _)
interpolateEnv_UnsetIsEmpty(value, e) ==
    IF value = <<>> THEN [ok |-> TRUE, str |-> <<>>, missing |-> NoMissing]
    ELSE LET rest == interpolateEnv_UnsetIsEmpty(Tail(value), e)
         IN  [ok |-> TRUE,
              str |-> (IF IsPlaceholder(Head(value))
                       THEN EnvOf(e, Head(value).text).text
                       ELSE <<Head(value)>>) \o rest.str,
              missing |-> NoMissing]

\* env-interpolator.ts:25-42: String.replace visits the matches from left to
\* right, once; the first unset variable throws, a set one is replaced by its
\* value, which is not scanned again.
RECURSIVE interpolateEnvFrom(_, _)
interpolateEnvFrom(value, e) ==
    IF value = <<>> THEN [ok |-> TRUE, str |-> <<>>, missing |-> NoMissing]
    ELSE IF IsPlaceholder(Head(value)) /\ ~EnvOf(e, Head(value).text).set
    THEN [ok |-> FALSE, str |-> <<>>, missing |-> Head(value).text]
    ELSE LET rest == interpolateEnvFrom(Tail(value), e)
         IN  IF ~rest.ok THEN rest
             ELSE [ok |-> TRUE,
                   str |-> (IF IsPlaceholder(Head(value))
                            THEN EnvOf(e, Head(value).text).text
                            ELSE <<Head(value)>>) \o rest.str,
                   missing |-> NoMissing]

\* Mutant of interpolateEnv: the result of a pass is scanned once more.
interpolateEnv_TwoPasses(value, e) ==
    LET first == interpolateEnvFrom(value, e)
    IN  IF first.ok THEN interpolateEnvFrom(first.str, e) ELSE first

interpolateEnv(value, e) == interpolateEnvFrom(value, e)

\* env-interpolator.ts:61-64: interpolated[key] = ... on an object literal.
\* The assignment makes an own property of every key but '__proto__', which
\* is the accessor of Object.prototype: assigning to it sets the prototype
\* of the new object (or does nothing) and adds no key.
AssignsOwnKey(key) == key # "__proto__"

\* env-interpolator.ts:50-68: strings are interpolated, arrays are mapped,
\* objects are rebuilt entry by entry, each value interpolated and assigned
\* to its key, anything else is returned as it is.  The first failure ends
\* the walk.
RECURSIVE interpolateCommand(_, _)
RECURSIVE InterpolateItems(_, _)
RECURSIVE InterpolateEntries(_, _, _)

InterpolateItems(items, e) ==
    IF items = <<>> THEN [ok |-> TRUE, items |-> <<>>, missing |-> NoMissing]
    ELSE LET h == interpolateCommand(Head(items), e)
         IN  IF ~h.ok THEN [ok |-> FALSE, items |-> <<>>, missing |-> h.missing]
             ELSE LET t == InterpolateItems(Tail(items), e)
                  IN  IF ~t.ok THEN t
                      ELSE [ok |-> TRUE, items |-> <<h.val>> \o t.items,
                            missing |-> NoMissing]

\* The loop over Object.entries(obj): each value is interpolated, then
\* assigned to its key.
InterpolateEntries(keys, items, e) ==
    IF keys = <<>>
    THEN [ok |-> TRUE, keys |-> <<>>, items |-> <<>>, missing |-> NoMissing]
    ELSE LET h == interpolateCommand(Head(items), e)
         IN  IF ~h.ok
             THEN [ok |-> FALSE, keys |-> <<>>, items |-> <<>>, missing |-> h.missing]
             ELSE LET t == InterpolateEntries(Tail(keys), Tail(items), e)
                  IN  IF ~t.ok \/ ~AssignsOwnKey(Head(keys)) THEN t
                      ELSE [ok |-> TRUE, keys |-> <<Head(keys)>> \o t.keys,
                            items |-> <<h.val>> \o t.items, missing |-> NoMissing]

interpolateCommand(obj, e) ==
    CASE obj.kind = "string" ->
           LET r == interpolateEnv(obj.str, e)
           IN  [ok |-> r.ok, val |-> Str(r.str), missing |-> r.missing]
      [] obj.kind = "array" ->
           LET r == InterpolateItems(obj.items, e)
           IN  [ok |-> r.ok, val |-> Arr(r.items), missing |-> r.missing]
      [] obj.kind = "object" ->
           LET r == InterpolateEntries(obj.keys, obj.items, e)
           IN  [ok |-> r.ok, val |-> IF r.ok THEN Obj(r.keys, r.items) ELSE obj,
                missing |-> r.missing]
      [] OTHER -> [ok |-> TRUE, val |-> obj, missing |-> NoMissing]

\* env-interpolator.ts:74-76.
interpolateConfig(cfg, e) == interpolateCommand(cfg, e)

\* -------------------------------------------------------------------- schema
\* Two modules of the repository export OperationConfigSchema, and
\* config-loader.ts:9 imports it from './schema': the generic module, whose
\* commands are open, and src/schema.ts, whose commands are a closed union.
SchemaModules == {"generic", "closed"}

\* fatal: the issue made the parse of its value INVALID (nothing to return),
\* not merely dirty (a value that fails a check).
Issue(path, message, fatal) == [path |-> path, message |-> message, fatal |-> fatal]
Field(key, type, arg, optional, msg) ==
    [key |-> key, type |-> type, arg |-> arg, optional |-> optional, msg |-> msg]

\* The members of z.union([...]) of src/schema.ts:110-119, in order.
UnionOptions ==
    <<"navigate", "fill", "click", "wait", "select", "see", "submit",
      "protect-cookie">>

PositiveTimeout == <<"timeout must be a positive integer">>
SelectorNotEmpty == <<"selector cannot be empty">>
NoMsg == <<>>

\* The z.object shapes: the keys each schema enumerates, in declaration order.
Shape(name) ==
    CASE name = "config:generic" ->
           <<Field("version", "nonEmptyString", "", FALSE, <<"version cannot be empty">>),
             Field("name", "string", "", TRUE, NoMsg),
             Field("description", "string", "", TRUE, NoMsg),
             Field("settings", "object", "settings:generic", TRUE, NoMsg),
             Field("commands", "array", "commands:generic", FALSE, NoMsg)>>
      [] name = "config:closed" ->
           <<Field("version", "nonEmptyString", "", FALSE, <<"version cannot be empty">>),
             Field("name", "string", "", TRUE, NoMsg),
             Field("description", "string", "", TRUE, NoMsg),
             Field("settings", "object", "settings:closed", TRUE, NoMsg),
             Field("commands", "array", "commands:closed", FALSE, NoMsg)>>
      [] name = "settings:generic" ->
           <<Field("timeout", "positiveInt", "", TRUE, PositiveTimeout),
             Field("waitForCompletion", "boolean", "", TRUE, NoMsg),
             Field("continueOnError", "boolean", "", TRUE, NoMsg),
             Field("baseUrl", "url", "", TRUE, <<"baseUrl must be a valid URL">>)>>
      [] name = "settings:closed" ->
           <<Field("timeout", "positiveInt", "", TRUE, PositiveTimeout),
             Field("waitForCompletion", "boolean", "", TRUE, NoMsg),
             Field("continueOnError", "boolean", "", TRUE, NoMsg),
             Field("baseUrl", "url", "", TRUE, <<"baseUrl must be a valid URL">>),
             Field("requestRemapping", "string", "", TRUE, NoMsg),
             Field("autoProtectCookies", "array", "cookies", TRUE, NoMsg),
             Field("windowPolyfills", "anyRecord", "", TRUE, NoMsg)>>
      [] name = "cookie" ->
           <<Field("name", "nonEmptyString", "", FALSE, <<"cookie name cannot be empty">>),
             Field("urlPattern", "nonEmptyString", "", FALSE, <<"URL pattern cannot be empty">>),
             Field("lock", "boolean", "", TRUE, NoMsg)>>
      [] name = "command:generic" ->
           <<Field("command", "nonEmptyString", "", FALSE, <<"command name cannot be empty">>),
             Field("description", "string", "", TRUE, NoMsg)>>
      [] name = "navigate" ->
           <<Field("command", "literal", "navigate", FALSE, NoMsg),
             Field("url", "nonEmptyString", "", FALSE, <<"url cannot be empty">>),
             Field("waitForLoad", "boolean", "", TRUE, NoMsg),
             Field("timeout", "positiveInt", "", TRUE, PositiveTimeout),
             Field("description", "string", "", TRUE, NoMsg)>>
      [] name = "fill" ->
           <<Field("command", "literal", "fill", FALSE, NoMsg),
             Field("selector", "nonEmptyString", "", FALSE, SelectorNotEmpty),
             Field("value", "string", "", FALSE, NoMsg),
             Field("clearFirst", "boolean", "", TRUE, NoMsg),
             Field("description", "string", "", TRUE, NoMsg)>>
      [] name = "click" ->
           <<Field("command", "literal", "click", FALSE, NoMsg),
             Field("selector", "nonEmptyString", "", FALSE, SelectorNotEmpty),
             Field("waitBefore", "nonNegativeInt", "", TRUE, <<"waitBefore must be non-negative">>),
             Field("waitAfter", "nonNegativeInt", "", TRUE, <<"waitAfter must be non-negative">>),
             Field("description", "string", "", TRUE, NoMsg)>>
      [] name = "wait" ->
           <<Field("command", "literal", "wait", FALSE, NoMsg),
             Field("timeout", "positiveInt", "", FALSE, PositiveTimeout),
             Field("description", "string", "", TRUE, NoMsg)>>
      [] name = "select" ->
           <<Field("command", "literal", "select", FALSE, NoMsg),
             Field("selector", "nonEmptyString", "", FALSE, SelectorNotEmpty),
             Field("value", "nonEmptyString", "", FALSE, <<"value cannot be empty">>),
             Field("description", "string", "", TRUE, NoMsg)>>
      [] name = "see" ->
           <<Field("command", "literal", "see", FALSE, NoMsg),
             Field("text", "string", "", TRUE, NoMsg),
             Field("selector", "string", "", TRUE, NoMsg),
             Field("assertion", "boolean", "", TRUE, NoMsg),
             Field("timeout", "positiveInt", "", TRUE, PositiveTimeout),
             Field("interval", "positiveInt", "", TRUE, <<"interval must be a positive integer">>),
             Field("description", "string", "", TRUE, NoMsg)>>
      [] name = "submit" ->
           <<Field("command", "literal", "submit", FALSE, NoMsg),
             Field("url", "nonEmptyString", "", FALSE, <<"url cannot be empty">>),
             Field("method", "enum", "method", TRUE, NoMsg),
             Field("data", "anyRecord", "", TRUE, NoMsg),
             Field("headers", "stringRecord", "", TRUE, NoMsg),
             Field("collectFrom", "string", "", TRUE, NoMsg),
             Field("contentType", "enum", "contentType", TRUE, NoMsg),
             Field("waitAfter", "nonNegativeInt", "", TRUE, <<"waitAfter must be non-negative">>),
             Field("description", "string", "", TRUE, NoMsg)>>
      [] name = "protect-cookie" ->
           <<Field("command", "literal", "protect-cookie", FALSE, NoMsg),
             Field("name", "nonEmptyString", "", FALSE, <<"cookie name cannot be empty">>),
             Field("domain", "string", "", TRUE, NoMsg),
             Field("lock", "boolean", "", TRUE, NoMsg),
             Field("description", "string", "", TRUE, NoMsg)>>

\* .passthrough() keeps the keys the shape does not enumerate; a plain
\* z.object strips them.
UnknownKeys(name) ==
    IF name \in {"settings:generic", "command:generic"} THEN "passthrough"
    ELSE "strip"

\* z.enum([...]).
EnumValues(arg) ==
    IF arg = "method" THEN {"POST", "GET"} ELSE {"json", "form"}

\* The element schema of each z.array.
ElementType(arg) ==
    CASE arg = "commands:generic" -> [type |-> "object", arg |-> "command:generic"]
      [] arg = "commands:closed" -> [type |-> "union", arg |-> ""]
      [] arg = "cookies" -> [type |-> "object", arg |-> "cookie"]

\* Mutant of MinLength: the commands array may be empty.
MinLength_None(arg) == IF arg = "cookies" THEN 0 ELSE 0

\* .min(1, 'at least one command is required') on the commands array.
MinLength(arg) == IF arg \in {"commands:generic", "commands:closed"} THEN 1 ELSE 0

\* z.string().url(): the text is a URL when it starts as one.
UrlPrefixes == {"http://a/"}
IsUrl(pieces) == pieces # <<>> /\ \E u \in UrlPrefixes : Head(pieces) = Lit(u)

ShapeKeys(name) == {Shape(name)[k].key : k \in 1..Len(Shape(name))}

\* Mutant of ExtraKeyIndices: the kept unknown keys come out in reverse order.
ExtraKeyIndices_Reversed(v, name) ==
    LET n == Len(v.keys)
    IN  SelectSeq([k \in 1..n |-> n + 1 - k],
                  LAMBDA k : v.keys[k] \notin ShapeKeys(name))

\* The keys of the input that the shape does not enumerate, in input order.
ExtraKeyIndices(v, name) ==
    SelectSeq([k \in 1..Len(v.keys) |-> k],
              LAMBDA k : v.keys[k] \notin ShapeKeys(name))

\* ---------------------------------------------------------------- zod parse
\* A parse result: the issues, the value built, and whether the parse was
\* aborted (zod's INVALID: a wrong type, a missing key, a wrong literal) or
\* went on after a failed check (zod's "dirty": too short, not positive).
Parsed(val) == [issues |-> <<>>, val |-> val]
Failed(path, message) == [issues |-> <<Issue(path, message, FALSE)>>, val |-> Null]
Invalid(path, message) == [issues |-> <<Issue(path, message, TRUE)>>, val |-> Null]
\* A parse is aborted when one of its issues is fatal: the status of an
\* object or an array is the merge of the statuses of its members.
Aborted(issues) == \E k \in 1..Len(issues) : issues[k].fatal
Expected(type, v, path) ==
    Invalid(path, <<"Expected ", type, ", received ", v.kind>>)

\* schema.parse: the issues found, in the order zod reports them, and the
\* value it builds when there are none.  An object comes out with the keys of
\* its shape first, in shape order, then the unknown keys if they are kept.
RECURSIVE ParseType(_, _, _, _, _)
RECURSIVE ParseFields(_, _, _)
RECURSIVE ParseElements(_, _, _, _)

ParseFields(fields, v, path) ==
    IF fields = <<>>
    THEN [issues |-> <<>>, keys |-> <<>>, items |-> <<>>]
    ELSE LET f == Head(fields)
             rest == ParseFields(Tail(fields), v, path)
         IN  IF HasKey(v, f.key)
             THEN LET r == ParseType(f.type, f.arg, f.msg, Get(v, f.key),
                                     Append(path, f.key))
                  IN  [issues |-> r.issues \o rest.issues,
                       keys |-> <<f.key>> \o rest.keys,
                       items |-> <<r.val>> \o rest.items]
             ELSE IF f.optional THEN rest
             ELSE [issues |-> <<Issue(Append(path, f.key), <<"Required">>, TRUE)>>
                                \o rest.issues,
                   keys |-> rest.keys, items |-> rest.items]

ParseElements(arg, items, k, path) ==
    IF k > Len(items) THEN [issues |-> <<>>, items |-> <<>>]
    ELSE LET r == ParseType(ElementType(arg).type, ElementType(arg).arg, NoMsg,
                            items[k], Append(path, ToString(k - 1)))
             rest == ParseElements(arg, items, k + 1, path)
         IN  [issues |-> r.issues \o rest.issues,
              items |-> <<r.val>> \o rest.items]

ParseType(type, arg, msg, v, path) ==
    CASE type = "string" ->
           IF v.kind = "string" THEN Parsed(v) ELSE Expected("string", v, path)
      [] type = "nonEmptyString" ->
           IF v.kind # "string" THEN Expected("string", v, path)
           ELSE IF v.str = <<>> THEN Failed(path, msg) ELSE Parsed(v)
      [] type = "url" ->
           IF v.kind # "string" THEN Expected("string", v, path)
           ELSE IF ~IsUrl(v.str) THEN Failed(path, msg) ELSE Parsed(v)
      [] type = "boolean" ->
           IF v.kind = "boolean" THEN Parsed(v) ELSE Expected("boolean", v, path)
      [] type = "positiveInt" ->
           IF v.kind # "number" THEN Expected("number", v, path)
           ELSE IF v.num <= 0 THEN Failed(path, msg) ELSE Parsed(v)
      [] type = "nonNegativeInt" ->
           IF v.kind # "number" THEN Expected("number", v, path)
           ELSE IF v.num < 0 THEN Failed(path, msg) ELSE Parsed(v)
      [] type = "literal" ->
           IF v.kind = "string" /\ v.str = <<Lit(arg)>> THEN Parsed(v)
           ELSE Invalid(path, <<"Invalid literal value, expected ", arg>>)
      [] type = "enum" ->
           IF v.kind = "string" /\ \E x \in EnumValues(arg) : v.str = <<Lit(x)>>
           THEN Parsed(v)
           ELSE Invalid(path, <<"Invalid enum value">>)
      [] type = "anyRecord" ->
           IF v.kind = "object" THEN Parsed(v) ELSE Expected("object", v, path)
      [] type = "stringRecord" ->
           IF v.kind # "object" THEN Expected("object", v, path)
           ELSE LET bad == {k \in 1..Len(v.items) : v.items[k].kind # "string"}
                IN  IF bad = {} THEN Parsed(v)
                    ELSE LET k == CHOOSE x \in bad : \A y \in bad : x <= y
                         IN  Expected("string", v.items[k], Append(path, v.keys[k]))
      [] type = "object" ->
           IF v.kind # "object" THEN Expected("object", v, path)
           ELSE LET known == ParseFields(Shape(arg), v, path)
                    extra == IF UnknownKeys(arg) = "passthrough"
                             THEN ExtraKeyIndices(v, arg) ELSE <<>>
                IN  [issues |-> known.issues,
                     val |-> Obj(known.keys \o [k \in 1..Len(extra) |-> v.keys[extra[k]]],
                                 known.items \o [k \in 1..Len(extra) |-> v.items[extra[k]]])]
      [] type = "array" ->
           IF v.kind # "array" THEN Expected("array", v, path)
           ELSE LET short == IF Len(v.items) < MinLength(arg)
                             THEN <<Issue(path, <<"at least one command is required">>,
                                          FALSE)>>
                             ELSE <<>>
                    elems == ParseElements(arg, v.items, 1, path)
                IN  [issues |-> short \o elems.issues, val |-> Arr(elems.items)]
      [] type = "union" ->
           \* The first valid option; else the first option that is only
           \* dirty, with its issues; else one issue for the union.
           LET option(k) == ParseType("object", UnionOptions[k], NoMsg, v, path)
               valid == {k \in 1..Len(UnionOptions) : option(k).issues = <<>>}
               dirty == {k \in 1..Len(UnionOptions) : ~Aborted(option(k).issues)}
           IN  IF valid # {}
               THEN option(CHOOSE x \in valid : \A y \in valid : x <= y)
               ELSE IF dirty # {}
               THEN option(CHOOSE x \in dirty : \A y \in dirty : x <= y)
               ELSE Invalid(path, <<"Invalid input">>)

\* OperationConfigSchema.parse of the module the loader imported.
SchemaParse(module, v) ==
    ParseType("object", IF module = "generic" THEN "config:generic" ELSE "config:closed",
              NoMsg, v, <<>>)

\* CommandSchema.safeParse(c).success of each module (generic: lines 27-30 of
\* the generic module; closed: src/schema.ts:110-119).
CommandSchemaAccepts(module, c) ==
    IF module = "generic"
    THEN ParseType("object", "command:generic", NoMsg, c, <<>>).issues = <<>>
    ELSE ParseType("union", "", NoMsg, c, <<>>).issues = <<>>

\* -------------------------------------------------------------- config loader
\* What a loader call gives back.  kind, stages and validated are history:
\* which stage failed, the stages that ran, and the value the schema was given.
NoOutcome ==
    [status |-> "none", value |-> Null, message |-> <<>>, kind |-> "none",
     stages |-> <<>>, validated |-> Null]
Returned(value, stages, validated) ==
    [status |-> "returned", value |-> value, message |-> <<>>, kind |-> "none",
     stages |-> stages, validated |-> validated]
Threw(message, kind, stages, validated) ==
    [status |-> "threw", value |-> Null, message |-> message, kind |-> kind,
     stages |-> stages, validated |-> validated]

\* path.resolve(filePath) of the one path the model loads from.
ResolvedPath == "/cfg.yaml"

\* The message texts of the loader that contain the text looked for by
\* String.includes (config-loader.ts:44, 99); the documents, variable names
\* and paths of the model contain neither.
TextsIncluding(needle) ==
    IF needle = "Configuration file not found"
    THEN {"Configuration file not found: "}
    ELSE {"Configuration file not found: ",
          "Configuration must be a valid YAML object",
          "Configuration validation failed:\n"}
Includes(message, needle) ==
    \E k \in 1..Len(message) : message[k] \in TextsIncluding(needle)

\* e.path.join('.') || 'root'.
RECURSIVE JoinPath(_)
JoinPath(path) ==
    IF path = <<>> THEN <<"root">>
    ELSE IF Len(path) = 1 THEN <<path[1]>>
    ELSE <<path[1], ".">> \o JoinPath(Tail(path))

\* errors.map(e => `${path}: ${e.message}`).join('\n').
RECURSIVE FormatIssues(_)
FormatIssues(issues) ==
    IF issues = <<>> THEN <<>>
    ELSE JoinPath(Head(issues).path) \o <<": ">> \o Head(issues).message
         \o (IF Len(issues) = 1 THEN <<>> ELSE <<"\n">> \o FormatIssues(Tail(issues)))

ValidationMessage(issues) ==
    <<"Configuration validation failed:\n">> \o FormatIssues(issues)

\* config-loader.ts:91-106, the catch around the whole of parseYaml.
OuterCatch(class, message) ==
    IF class = "SyntaxError" THEN <<"YAML parsing error: ">> \o message
    ELSE IF Includes(message, "Configuration") THEN message
    ELSE <<"Failed to parse configuration: ">> \o message

\* Mutant of parseYaml: the schema is given the parsed document, and the
\* interpolator runs on what the schema returned.
parseYaml_ValidateFirst(module, content, e) ==
    IF content.syntax # "ok"
    THEN Threw(OuterCatch(content.syntax, <<"invalid YAML">>), "parse-error",
               <<"parse">>, Null)
    ELSE IF content.value.kind \notin {"object", "array"}
    THEN Threw(OuterCatch("Error", <<"Configuration must be a valid YAML object">>),
               "not-object", <<"parse">>, Null)
    ELSE LET checked == SchemaParse(module, content.value)
             interpolated == interpolateConfig(checked.val, e)
         IN  IF checked.issues # <<>>
             THEN Threw(OuterCatch("Error", ValidationMessage(checked.issues)),
                        "validation-error", <<"parse", "validate">>, content.value)
             ELSE IF ~interpolated.ok
             THEN Threw(OuterCatch("Error",
                          <<"Failed to interpolate environment variables: ",
                            "Environment variable not found: ", interpolated.missing>>),
                        "interpolation-error",
                        <<"parse", "validate", "interpolate">>, content.value)
             ELSE Returned(interpolated.val, <<"parse", "validate", "interpolate">>,
                           content.value)

\* config-loader.ts:56-107: ConfigLoader.parseYaml(content).  The yaml
\* parser is a library: a text either has a syntax error, which the parser
\* throws as a SyntaxError or as an error class of its own, or denotes a value.
parseYaml(module, content, e) ==
    IF content.syntax # "ok"
    THEN Threw(OuterCatch(content.syntax, <<"invalid YAML">>), "parse-error",
               <<"parse">>, Null)
    ELSE IF content.value.kind \notin {"object", "array"}
    THEN Threw(OuterCatch("Error", <<"Configuration must be a valid YAML object">>),
               "not-object", <<"parse">>, Null)
    ELSE LET interpolated == interpolateConfig(content.value, e)
             checked == SchemaParse(module, interpolated.val)
         IN  IF ~interpolated.ok
             THEN Threw(OuterCatch("Error",
                          <<"Failed to interpolate environment variables: ",
                            "Environment variable not found: ", interpolated.missing>>),
                        "interpolation-error", <<"parse", "interpolate">>, Null)
             ELSE IF checked.issues # <<>>
             THEN Threw(OuterCatch("Error", ValidationMessage(checked.issues)),
                        "validation-error", <<"parse", "interpolate", "validate">>,
                        interpolated.val)
             ELSE Returned(checked.val, <<"parse", "interpolate", "validate">>,
                           interpolated.val)

\* config-loader.ts:22-50: ConfigLoader.loadFromFile(filePath).  Every error
\* of parseYaml is caught at line 42 and thrown again inside a new message.
loadFromFile(module, file, e) ==
    IF ~file.exists
    THEN Threw(<<"Configuration file not found: ", ResolvedPath>>, "file-not-found",
               <<>>, Null)
    ELSE LET r == parseYaml(module, [syntax |-> file.syntax, value |-> file.value], e)
         IN  IF r.status = "returned" THEN r
             ELSE IF Includes(r.message, "Configuration file not found") THEN r
             ELSE [r EXCEPT !.message =
                      <<"Failed to load configuration from ", ResolvedPath, ": ",
                        "Error: ">> \o r.message]

\* Mutant of validate: the object is interpolated before it is validated.
validate_Interpolating(module, cfg, e) ==
    LET interpolated == interpolateConfig(cfg, e)
        checked == SchemaParse(module, interpolated.val)
    IN  IF ~interpolated.ok
        THEN Threw(<<"Failed to interpolate environment variables: ",
                     "Environment variable not found: ", interpolated.missing>>,
                   "interpolation-error", <<"interpolate">>, Null)
        ELSE IF checked.issues # <<>>
        THEN Threw(ValidationMessage(checked.issues), "validation-error",
                   <<"interpolate", "validate">>, interpolated.val)
        ELSE Returned(checked.val, <<"interpolate", "validate">>, interpolated.val)

\* config-loader.ts:113-125: ConfigLoader.validate(config), and the object
\* branch of load (lines 139-150), which is the same code.  The environment
\* is a parameter only to show that it is not read.
validate(module, cfg, e) ==
    LET checked == SchemaParse(module, cfg)
    IN  IF checked.issues # <<>>
        THEN Threw(ValidationMessage(checked.issues), "validation-error",
                   <<"validate">>, cfg)
        ELSE Returned(checked.val, <<"validate">>, cfg)

\* config-loader.ts:134-151: ConfigLoader.load(configOrPath).
load(module, inp, e) ==
    IF inp.form = "path" THEN loadFromFile(module, inp, e)
    ELSE validate(module, inp.value, e)

\* index.ts:74-81: the loading part of executeOperation.
LoadInput(module, inp, e) ==
    IF inp.form = "array"
    THEN validate(module, Obj(<<"version", "commands">>, <<TextOf("1"), inp.value>>), e)
    ELSE load(module, inp, e)

\* The call the input stands for.
Call(module, inp, e) ==
    CASE inp.entry = "parseYaml" -> parseYaml(module, inp, e)
      [] inp.entry = "loadFromFile" -> loadFromFile(module, inp, e)
      [] inp.entry = "load" -> load(module, inp, e)
      [] inp.entry = "validate" -> validate(module, inp.value, e)
      [] inp.entry = "executeOperation" -> LoadInput(module, inp, e)

\* -------------------------------------------------------------------- inputs
\* Command records: well-formed for both schema modules (cFill, cFillEnv),
\* open-schema only (cSubmitExtra, cKeyEnv, cEmptySelector), named by the
\* environment (cNameEnv), and ill-formed (cEmptyName, cNoName,
\* cBadDescription).
cFill == Obj(<<"command", "selector", "value">>, <<TextOf("fill"), TextOf("#u"), TextOf("x")>>)
cFillEnv ==
    Obj(<<"selector", "command", "value">>,
        <<TextOf("#u"), TextOf("fill"), Str(<<Lit("p="), Ph("B")>>)>>)
cSubmitExtra == Obj(<<"command", "extra", "more">>, <<TextOf("submit"), TextOf("x"), Num(1)>>)
cKeyEnv == Obj(<<"command", "${getenv:A}">>, <<TextOf("submit"), TextOf("x")>>)
cNameEnv ==
    Obj(<<"command", "selector", "value">>, <<Str(<<Ph("A")>>), TextOf("#u"), TextOf("x")>>)
cEmptyName == Obj(<<"command">>, <<Str(<<>>)>>)
cNoName == Obj(<<"selector">>, <<TextOf("#u")>>)
cBadDescription == Obj(<<"command", "description">>, <<TextOf("fill"), Num(5)>>)
cEmptySelector ==
    Obj(<<"command", "selector", "value">>, <<TextOf("fill"), Str(<<>>), TextOf("x")>>)

CommandRecords ==
    {cFill, cFillEnv, cSubmitExtra, cKeyEnv, cNameEnv, cEmptyName, cNoName,
     cBadDescription, cEmptySelector}

\* The commands arrays of the documents.
CommandLists ==
    {<<>>} \cup {<<c>> : c \in CommandRecords}
    \cup {<<cFill, cSubmitExtra>>, <<cSubmitExtra, cFill>>, <<cFillEnv, cFill>>,
          <<cEmptyName, cNoName>>}

\* An absent field of a document.
Absent == [kind |-> "undefined", str |-> <<>>, num |-> 0, bool |-> FALSE,
           keys |-> <<>>, items |-> <<>>]

VersionFields == {Absent, Str(<<>>), TextOf("1"), Str(<<Ph("A")>>), Num(1)}
CommandsFields == {Absent, TextOf("none")} \cup {Arr(l) : l \in CommandLists}
SettingsFields ==
    {Absent,
     Obj(<<"custom", "continueOnError", "timeout", "baseUrl">>,
         <<Str(<<Ph("B")>>), Bool(TRUE), Num(10), TextOf("http://a/")>>),
     Obj(<<"timeout", "baseUrl">>, <<Num(0), TextOf("nowhere")>>)}
ExtraFields == {Absent, Str(<<Lit("t-"), Ph("B")>>)}

\* The record with the fields that are not absent, in the order given.
Record(keys, items) ==
    LET present == SelectSeq([k \in 1..Len(keys) |-> k],
                             LAMBDA k : items[k] # Absent)
    IN  Obj([k \in 1..Len(present) |-> keys[present[k]]],
            [k \in 1..Len(present) |-> items[present[k]]])

\* The documents: the plain one, and those that differ from it in one or two
\* of their four fields.
Differences(x, c, v, s) ==
    (IF x = Absent THEN 0 ELSE 1) + (IF c = Arr(<<cFill>>) THEN 0 ELSE 1)
    + (IF v = TextOf("1") THEN 0 ELSE 1) + (IF s = Absent THEN 0 ELSE 1)
Docs ==
    {Record(<<"token", "commands", "version", "settings">>, f) :
        f \in {g \in ExtraFields \X CommandsFields \X VersionFields \X SettingsFields :
                 Differences(g[1], g[2], g[3], g[4]) <= MaxDifferences}}

\* Top-level values that are not records: null (also the empty document),
\* scalars and sequences.
NonRecords ==
    {Null, Str(<<Ph("A")>>), Num(1), Bool(FALSE), Arr(<<cFill>>),
     Arr(<<Str(<<Ph("A")>>)>>)}

\* The documents executeOperation is called with: those whose command names,
\* when the document loads, are names of CommandNames.
InMemoryLists ==
    {l \in CommandLists : \A k \in 1..Len(l) : l[k] # cNameEnv}
OpDocs(lists) ==
    {Record(<<"commands", "version", "settings">>, <<Arr(l), v, s>>) :
        l \in lists, v \in {TextOf("1"), Str(<<>>)}, s \in SettingsFields}

\* A call: the entry point, the form of its argument, and the argument.  A
\* path names a file that exists or not; a text has a syntax error or denotes
\* a value.
In(entry, form, exists, syntax, value) ==
    [entry |-> entry, form |-> form, exists |-> exists, syntax |-> syntax,
     value |-> value]
NoInput == In("none", "none", FALSE, "ok", Null)
SyntaxErrors == {"SyntaxError", "YAMLParseError"}

Texts(entry, form, values) ==
    {In(entry, form, TRUE, "ok", v) : v \in values}
    \cup {In(entry, form, TRUE, s, Null) : s \in SyntaxErrors}

LoaderInputs ==
    Texts("parseYaml", "text", Docs \cup NonRecords)
    \cup Texts("loadFromFile", "path", Docs \cup NonRecords)
    \cup {In("loadFromFile", "path", FALSE, "ok", Null)}
    \cup Texts("load", "path", Docs)
    \cup {In("load", "path", FALSE, "ok", Null)}
    \cup {In("load", "object", FALSE, "ok", v) : v \in Docs}
    \cup {In("validate", "object", FALSE, "ok", v) : v \in Docs \cup NonRecords}

OperationInputs ==
    Texts("executeOperation", "path", OpDocs(CommandLists))
    \cup {In("executeOperation", "path", FALSE, "ok", Null)}
    \cup {In("executeOperation", "object", FALSE, "ok", v) : v \in OpDocs(InMemoryLists)}
    \cup {In("executeOperation", "array", FALSE, "ok", Arr(l)) : l \in InMemoryLists}

Inputs == LoaderInputs \cup OperationInputs

\* -------------------------------------------------- executeOperation context
\* index.ts:49.
DEFAULT_COMMAND_TIMEOUT == 5000

\* A field of the Partial<ExecutionContext> the caller passes: left out
\* (undefined), or set to a value.
NotSet(val) == [set |-> FALSE, val |-> val]
SetTo(val) == [set |-> TRUE, val |-> val]

\* window.location.href of a window handle; no window, no href.
WindowHref(w) == IF w = NoWindow THEN <<>> ELSE <<Lit("http://test/")>>

\* The partial contexts executeOperation is called with.  Each of baseUrl,
\* timeout and continueOnError is left out, set to the falsy value of its
\* type, or set to another value.
CallerBaseUrls == {NotSet(<<>>), SetTo(<<>>), SetTo(<<Lit("http://c/")>>)}
CallerTimeouts == {NotSet(0), SetTo(0), SetTo(7000)}
CallerFlags == {NotSet(FALSE), SetTo(FALSE), SetTo(TRUE)}
Partial(backend, window, baseUrl, timeout, continueOnError) ==
    [backend |-> backend, window |-> window, baseUrl |-> baseUrl,
     timeout |-> timeout, continueOnError |-> continueOnError,
     requestResult |-> IF window = NoWindow THEN NoRequestResult ELSE "ctx0"]
Callers ==
    {Partial(b, w, u, t, f) :
        b \in {"undefined", "cdp"}, w \in {NoWindow, "w1"},
        u \in CallerBaseUrls, t \in CallerTimeouts, f \in CallerFlags}

\* { backend: 'happy-dom', window }.
PlainCaller == Partial("happy-dom", "w1", NotSet(<<>>), NotSet(0), NotSet(FALSE))

\* The arrays that hold results: each has an identity, so that two contexts
\* can be told to hold the same array or two arrays.
ArrayIds == {"a1", "a2"}
NoArray == "none"
CallerArray == "caller"

\* The context object before executeOperation has built it.
BlankContext ==
    [backend |-> "happy-dom", window |-> "w1", continueOnError |-> FALSE,
     baseUrl |-> <<>>, timeout |-> DEFAULT_COMMAND_TIMEOUT,
     results |-> <<>>, resultsId |-> NoArray, requestResult |-> "ctx0"]

\* No configuration has been loaded yet.
NoConfig == [name |-> "op", commands |-> <<>>]

\* The state of one executeOperation call: its locals, its context, its
\* position and its history.
NoCall ==
    [config |-> NoConfig, ctx |-> BlankContext, currentWindow |-> NoWindow,
     i |-> 0, result |-> NoResult, pc |-> "idle", ret |-> NoReturn, base |-> 0,
     calls |-> <<>>, produced |-> <<>>, pending |-> {}, released |-> {},
     abortFailed |-> {}, input |-> NoInput, outcome |-> NoOutcome]

\* Mutant of EmptyResultsArray: the results are kept in an array of the
\* caller's partial context, the same one for every call made with it.
EmptyResultsArray_OfCaller ==
    [id |-> CallerArray,
     items |-> IF peer.ctx.resultsId = CallerArray THEN peer.ctx.results
               ELSE <<>>]

\* index.ts:99: results: [], an array allocated by this call.
EmptyResultsArray ==
    [id |-> CHOOSE a \in ArrayIds : a # peer.ctx.resultsId, items |-> <<>>]

\* config.settings?.[key] of a validated configuration.
Setting(value, key) ==
    IF HasKey(value, "settings") /\ HasKey(Get(value, "settings"), key)
    THEN Get(Get(value, "settings"), key)
    ELSE Absent

\* index.ts:92-103: the full context.  a || b takes b when a is undefined,
\* '' or 0; a ?? b takes b only when a is undefined.
FullContext(context, value) ==
    [backend |-> IF context.backend # "undefined" THEN context.backend
                 ELSE "happy-dom",
     window |-> context.window,
     baseUrl |->
        IF context.baseUrl.set /\ context.baseUrl.val # <<>>
        THEN context.baseUrl.val
        ELSE IF Setting(value, "baseUrl").kind = "string"
                /\ Setting(value, "baseUrl").str # <<>>
        THEN Setting(value, "baseUrl").str
        ELSE WindowHref(context.window),
     timeout |->
        IF context.timeout.set /\ context.timeout.val # 0
        THEN context.timeout.val
        ELSE IF Setting(value, "timeout").kind = "number"
                /\ Setting(value, "timeout").num # 0
        THEN Setting(value, "timeout").num
        ELSE DEFAULT_COMMAND_TIMEOUT,
     continueOnError |->
        IF context.continueOnError.set THEN context.continueOnError.val
        ELSE IF Setting(value, "continueOnError").kind = "boolean"
        THEN Setting(value, "continueOnError").bool
        ELSE FALSE,
     results |-> EmptyResultsArray.items,
     resultsId |-> EmptyResultsArray.id,
     requestResult |-> context.requestResult]

\* ------------------------------------------------------------------- actions
TypeOK ==
    /\ registry \in [CommandNames -> ExecutorFns \cup {NoExecutor}]
    /\ pc \in {"idle", "loop", "awaitExecutor", "resume", "awaitAbort", "done", "rejected"}
    /\ i \in 0..MaxCmds
    /\ currentWindow \in Windows \cup {NoWindow}
    /\ ctx.window \in Windows \cup {NoWindow}
    /\ ctx.continueOnError \in BOOLEAN
    /\ Len(ctx.results) <= MaxResults
    /\ pending \subseteq 0..MaxCmds

Init ==
    /\ registry = [n \in CommandNames |->
                     IF n \in {"navigate", "fill"} THEN "e1" ELSE NoExecutor]
    /\ config \in Configs
    /\ \E b \in {"happy-dom", "cdp"}, coe \in BOOLEAN, w \in {NoWindow, "w1"} :
          /\ b = "cdp" => w = "w1"
          /\ ctx = [backend |-> b, window |-> w, continueOnError |-> coe,
                    baseUrl |-> <<>>, timeout |-> DEFAULT_COMMAND_TIMEOUT,
                    results |-> <<>>, resultsId |-> "a1",
                    requestResult |-> IF w = NoWindow THEN NoRequestResult ELSE "ctx0"]
    /\ heap = [r \in RequestResultRefs |->
                 CASE r = "ctx0" -> "m0" [] r = "w3" -> "m3" [] OTHER -> NoRemapper]
    /\ currentWindow = NoWindow
    /\ i = 0
    /\ result = NoResult
    /\ pc = "idle"
    /\ ret = NoReturn
    /\ base = 0
    /\ calls = <<>>
    /\ produced = <<>>
    /\ pending = {}
    /\ released = {}
    /\ abortFailed = {}
    /\ schemaModule = "generic"
    /\ env = [x \in VarNames |-> EnvUnset]
    /\ input = NoInput
    /\ outcome = NoOutcome
    /\ regLog = <<>>
    /\ caller = PlainCaller
    /\ peer = NoCall

\* registry.ts:23-25: a collaborator registers a command.  It can run before
\* a run, after it, or while execute is suspended.
RegisterCommand(name, executor) ==
    /\ pc \in Suspended \cup {"idle", "done"}
    /\ name \in LateNames /\ executor \in LateExecutorFns
    /\ registry' = RegistrySet(registry, name, executor)
    /\ registry' # registry
    /\ UNCHANGED <<config, ctx, heap, currentWindow, i, result, pc, ret, base,
                   calls, produced, pending, released, abortFailed>>

\* executor.ts:20-32: execute(config, context) is called, with a fresh
\* context or again with the context of the call that returned.
Execute ==
    /\ pc \in {"idle", "done"}
    /\ Len(ctx.results) + Len(config.commands) <= MaxResults
    /\ config' = config
    /\ currentWindow' = ctx.window
    /\ i' = 0
    /\ pc' = "loop"
    /\ base' = Len(ctx.results)
    /\ calls' = <<>>
    /\ produced' = <<>>
    /\ released' = {}
    /\ abortFailed' = {}
    /\ UNCHANGED <<registry, ctx, heap, result, ret, pending>>

\* executor.ts:39, 111-128: the command has no registered executor.
DispatchUnknown ==
    /\ pc = "loop"
    /\ getCommandExecutor(Command) = NoExecutor
    /\ result' = UnknownCommandResult(Command, i)
    /\ produced' = Append(produced, Produced(Command, i, "unknown", result'))
    /\ pc' = "resume"
    /\ UNCHANGED <<registry, config, ctx, heap, currentWindow, i, ret, base,
                   calls, pending, released, abortFailed>>

\* Mutant of InvokeExecutor: the executors are looked up once, when the run
\* starts; a registration made during the run does not reach it.
InvokeExecutor_LookedUpAtStart ==
    /\ pc = "loop"
    /\ getCommandExecutor(Command) # NoExecutor
    /\ calls' = Append(calls, ExecutorArgs(currentWindow, Command, i,
                                           IF Command = "fill" THEN "e1"
                                           ELSE getCommandExecutor(Command)))
    /\ pending' = pending \cup {i}
    /\ pc' = "awaitExecutor"
    /\ UNCHANGED <<registry, config, ctx, heap, currentWindow, i, result, ret,
                   base, produced, released, abortFailed>>

\* Mutant of InvokeExecutor: the engine gives the executor until
\* context.timeout and then goes on with a failure of its own making.
InvokeExecutor_Deadline ==
    /\ pc = "loop"
    /\ getCommandExecutor(Command) # NoExecutor
    /\ calls' = Append(calls, ExecutorArgs(currentWindow, Command, i,
                                           getCommandExecutor(Command)))
    /\ pending' = pending \cup {i}
    /\ result' = CaughtResult(Command, i, [isNullish |-> FALSE, message |-> "timeout"])
    /\ produced' = Append(produced, Produced(Command, i, "caught", result'))
    /\ pc' = IF ctx.timeout > 0 THEN "resume" ELSE "awaitExecutor"
    /\ UNCHANGED <<registry, config, ctx, heap, currentWindow, i, ret, base,
                   released, abortFailed>>

\* executor.ts:39, 111-112, 130: the registered executor is invoked.
InvokeExecutor ==
    /\ pc = "loop"
    /\ getCommandExecutor(Command) # NoExecutor
    /\ calls' = Append(calls, ExecutorArgs(currentWindow, Command, i,
                                           getCommandExecutor(Command)))
    /\ pending' = pending \cup {i}
    /\ pc' = "awaitExecutor"
    /\ UNCHANGED <<registry, config, ctx, heap, currentWindow, i, result, ret,
                   base, produced, released, abortFailed>>

\* executor.ts:130: the executor's promise resolves with a CommandResult.
ExecutorReturns(r) ==
    /\ pc = "awaitExecutor"
    /\ r \in ExecutorReturnValues(Command, i, currentWindow)
    /\ result' = r
    /\ produced' = Append(produced, Produced(Command, i, "executor", r))
    /\ pending' = pending \ {i}
    /\ pc' = "resume"
    /\ UNCHANGED <<registry, config, ctx, heap, currentWindow, i, ret, base,
                   calls, released, abortFailed>>

\* executor.ts:130-148: the executor throws or its promise rejects.
ExecutorThrows(error) ==
    /\ pc = "awaitExecutor"
    /\ pending' = pending \ {i}
    /\ IF CatchBlockThrows(error)
       THEN /\ pc' = "rejected"
            /\ UNCHANGED <<result, produced>>
       ELSE /\ result' = CaughtResult(Command, i, error)
            /\ produced' = Append(produced, Produced(Command, i, "caught", result'))
            /\ pc' = "resume"
    /\ UNCHANGED <<registry, config, ctx, heap, currentWindow, i, ret, base,
                   calls, released, abortFailed>>

\* executor.ts:39-49, 55-98: execute resumes with the result, appends it and,
\* when a window is to be replaced, starts releasing the old one.
ResumeWithResult ==
    /\ pc = "resume"
    /\ LET c == [ctx EXCEPT !.results = PushResult(@, result)]
       IN  IF ShouldReplaceWindow(ctx.backend, Command, result)
           THEN IF currentWindow # NoWindow
                THEN /\ ctx' = c
                     /\ released' = released \cup {currentWindow}
                     /\ pc' = "awaitAbort"
                     /\ UNCHANGED <<heap, currentWindow, i, result, ret>>
                ELSE /\ FinishIteration(InstalledContext(c, result.newWindow),
                                        InstalledHeap(c, heap, result.newWindow),
                                        result.newWindow)
                     /\ UNCHANGED released
           ELSE /\ FinishIteration(c, heap, currentWindow)
                /\ UNCHANGED released
    /\ UNCHANGED <<registry, config, base, calls, produced, pending, abortFailed>>

\* Mutant of AbortSettles: a failure of happyDOM.abort() is not caught and
\* execute rejects.
AbortSettles_Fatal(ok) ==
    /\ pc = "awaitAbort"
    /\ IF ok
       THEN FinishIteration(InstalledContext(ctx, result.newWindow),
                            InstalledHeap(ctx, heap, result.newWindow),
                            result.newWindow)
       ELSE /\ pc' = "rejected"
            /\ UNCHANGED <<ctx, heap, currentWindow, result, i, ret>>
    /\ abortFailed' = IF ok THEN abortFailed ELSE abortFailed \cup {currentWindow}
    /\ UNCHANGED <<registry, config, base, calls, produced, pending, released>>

\* executor.ts:47-98: happyDOM.abort() settles; a failure of it is ignored.
AbortSettles(ok) ==
    /\ pc = "awaitAbort"
    /\ FinishIteration(InstalledContext(ctx, result.newWindow),
                       InstalledHeap(ctx, heap, result.newWindow),
                       result.newWindow)
    /\ abortFailed' = IF ok THEN abortFailed ELSE abortFailed \cup {currentWindow}
    /\ UNCHANGED <<registry, config, base, calls, produced, pending, released>>

\* The steps of a call of execute, and the registrations made meanwhile.
RunStep ==
    \/ \E n \in CommandNames, e \in ExecutorFns : RegisterCommand(n, e)
    \/ DispatchUnknown
    \/ InvokeExecutor
    \/ \E r \in ExecutorReturnValues(Command, i, currentWindow) : ExecutorReturns(r)
    \/ \E e \in ThrownValues : ExecutorThrows(e)
    \/ ResumeWithResult
    \/ \E ok \in BOOLEAN : AbortSettles(ok)

Next ==
    \/ Execute /\ UNCHANGED lvars
    \/ RunStep /\ UNCHANGED lvars

Spec == Init /\ [][Next]_vars

\* ------------------------------------------- execute, every await settling
\* The steps of execute itself.  An await that has settled is resumed by the
\* event loop; that the executor's promise and happyDOM.abort() settle at all
\* is assumed of them.
EngineStep ==
    \/ DispatchUnknown
    \/ InvokeExecutor
    \/ \E r \in ExecutorReturnValues(Command, i, currentWindow) : ExecutorReturns(r)
    \/ \E e \in ThrownValues : ExecutorThrows(e)
    \/ ResumeWithResult
    \/ \E ok \in BOOLEAN : AbortSettles(ok)

SpecFair == Init /\ [][Next]_vars /\ WF_vars(EngineStep /\ UNCHANGED lvars)

\* ------------------------------------------------- loading, then executing
\* execute has not been called: its locals and the histories are empty.
ExecuteNotCalled ==
    /\ heap = [r \in RequestResultRefs |->
                 CASE r = "ctx0" -> "m0" [] r = "w3" -> "m3" [] OTHER -> NoRemapper]
    /\ currentWindow = NoWindow
    /\ i = 0
    /\ result = NoResult
    /\ pc = "idle"
    /\ ret = NoReturn
    /\ base = 0
    /\ calls = <<>>
    /\ produced = <<>>
    /\ pending = {}
    /\ released = {}
    /\ abortFailed = {}

\* A call of the loader or of executeOperation is about to be made.  The
\* caller of executeOperation passes { backend: 'happy-dom', window }.
LoadInit ==
    /\ registry = [n \in CommandNames |->
                     IF n \in {"navigate", "fill"} THEN "e1" ELSE NoExecutor]
    /\ config = NoConfig
    /\ ctx = BlankContext
    /\ ExecuteNotCalled
    /\ input \in Inputs
    /\ schemaModule \in SchemaModules
    /\ env \in Envs
    /\ outcome = NoOutcome
    /\ regLog = <<>>
    /\ caller = PlainCaller
    /\ peer = NoCall

\* What execute reads of the loaded configuration: the command names.
LoadedConfig(value) ==
    [name |-> "op",
     commands |-> [k \in 1..Len(Get(value, "commands").items) |->
                     Get(Get(value, "commands").items[k], "command").str[1].text]]

\* Mutant of ReachesExecute: execute is called whatever the load gave.
ReachesExecute_Always(o) == o.status \in {"returned", "threw"}

\* index.ts:74-107: the statements after the load run only when it returned.
ReachesExecute(o) == o.status = "returned"

\* A direct call of ConfigLoader.parseYaml, loadFromFile, load or validate.
LoaderCall ==
    /\ input.entry \notin {"none", "executeOperation"}
    /\ outcome.status = "none"
    /\ outcome' = Call(schemaModule, input, env)
    /\ UNCHANGED <<schemaModule, env, input, regLog, caller, peer>>
    /\ UNCHANGED xvars

\* index.ts:68-100: executeOperation loads its input and builds the context.
ExecuteOperationLoads ==
    /\ input.entry = "executeOperation"
    /\ outcome.status = "none"
    /\ outcome' = Call(schemaModule, input, env)
    /\ IF outcome'.status = "returned"
       THEN /\ config' = LoadedConfig(outcome'.value)
            /\ ctx' = FullContext(caller, outcome'.value)
       ELSE UNCHANGED <<config, ctx>>
    /\ UNCHANGED <<schemaModule, env, input, regLog, caller, peer>>
    /\ UNCHANGED <<registry, heap, currentWindow, i, result, pc, ret, base,
                   calls, produced, pending, released, abortFailed>>

\* index.ts:106: return executor.execute(config, fullContext).  The input
\* and the loaded value are dead from here on.
ExecuteOperationExecutes ==
    /\ input.entry = "executeOperation"
    /\ ReachesExecute(outcome)
    /\ pc = "idle"
    /\ Execute
    /\ input' = NoInput
    /\ outcome' = [NoOutcome EXCEPT !.status = "executing"]
    /\ UNCHANGED <<schemaModule, env, regLog, caller, peer>>

\* execute runs, as in Spec.
Running ==
    /\ outcome.status = "executing"
    /\ RunStep
    /\ UNCHANGED lvars

LoadNext ==
    \/ LoaderCall
    \/ ExecuteOperationLoads
    \/ ExecuteOperationExecutes
    \/ Running

SpecLoad == LoadInit /\ [][LoadNext]_vars

\* ------------------------------------------- executeOperation, any caller
\* The settings of the configurations: none, one for each of the three
\* fields, only continueOnError, and only the other two.
ContextSettings ==
    {Absent,
     Obj(<<"continueOnError", "timeout", "baseUrl">>,
         <<Bool(TRUE), Num(10), TextOf("http://a/")>>),
     Obj(<<"continueOnError">>, <<Bool(FALSE)>>),
     Obj(<<"timeout", "baseUrl">>, <<Num(10), TextOf("http://a/")>>)}
ContextLists == {<<cFill>>, <<cSubmitExtra, cFill>>}
ContextInputs ==
    {In("executeOperation", "object", FALSE, "ok",
        Record(<<"version", "settings", "commands">>, <<TextOf("1"), st, Arr(l)>>)) :
        st \in ContextSettings, l \in ContextLists}

\* executeOperation(context, config) is about to be called.
ContextInit ==
    /\ registry = [n \in CommandNames |->
                     IF n \in {"navigate", "fill"} THEN "e1" ELSE NoExecutor]
    /\ config = NoConfig
    /\ ctx = BlankContext
    /\ ExecuteNotCalled
    /\ input \in ContextInputs
    /\ caller \in Callers
    /\ peer = NoCall
    /\ schemaModule \in SchemaModules
    /\ env = [x \in VarNames |-> EnvUnset]
    /\ outcome = NoOutcome
    /\ regLog = <<>>

ContextNext ==
    \/ ExecuteOperationLoads
    \/ ExecuteOperationExecutes
    \/ Running

SpecContext == ContextInit /\ [][ContextNext]_vars

\* ------------------------------------------------------ registry, on its own
\* registry.ts:21: const registry = new Map(), before any registration.
RegistryInit ==
    /\ registry = [n \in CommandNames |-> NoExecutor]
    /\ config = NoConfig
    /\ ctx = BlankContext
    /\ ExecuteNotCalled
    /\ schemaModule = "generic"
    /\ env = [x \in VarNames |-> EnvUnset]
    /\ input = NoInput
    /\ outcome = NoOutcome
    /\ regLog = <<>>
    /\ caller = PlainCaller
    /\ peer = NoCall

\* registry.ts:23-25: registerCommand(name, executor), any name, any executor.
Register(name, executor) ==
    /\ Len(regLog) < MaxRegs
    /\ registry' = RegistrySet(registry, name, executor)
    /\ regLog' = Append(regLog, [name |-> name, executor |-> executor])
    /\ UNCHANGED <<schemaModule, env, input, outcome, caller, peer>>
    /\ UNCHANGED <<config, ctx, heap, currentWindow, i, result, pc, ret, base,
                   calls, produced, pending, released, abortFailed>>

RegistryNext == \E n \in CommandNames, e \in ExecutorFns : Register(n, e)

SpecRegistry == RegistryInit /\ [][RegistryNext]_vars

\* --------------------------------------------------- interpolator, on its own
\* The values the exported functions of env-interpolator.ts are called with:
\* strings with several tokens, with tokens whose names do not match the
\* pattern, values that are no strings, and nested records and sequences.
vSeveral == Str(<<Ph("A"), Lit("-"), Ph("B"), Ph("A")>>)
vNested ==
    Obj(<<"z", "a">>,
        <<Arr(<<Num(1), Str(<<Lit("p="), Ph("B")>>),
                Obj(<<"deep">>, <<Arr(<<Str(<<Ph("A")>>), Null>>)>>)>>),
          Bool(TRUE)>>)
vTokens == Str(<<Ph("a"), Lit("/"), Ph("1A"), Ph("Ab")>>)
vMixed == Arr(<<Str(<<Ph("a"), Ph("A")>>), Obj(<<"k">>, <<Str(<<Ph("1A")>>)>>)>>)
vWord == Arr(<<Str(<<Ph("A_1")>>), Str(<<Ph("A")>>)>>)
vUnderscore == Str(<<Lit("x"), Ph("_A")>>)
vProto ==
    Obj(<<"name", "__proto__", "last">>,
        <<Str(<<Ph("A")>>), Obj(<<"p">>, <<TextOf("q")>>), Num(1)>>)
InterpolationValues ==
    {vSeveral, vNested, vTokens, vMixed, vWord, vUnderscore, vProto, cKeyEnv, cFillEnv,
     Num(1), Bool(FALSE), Null, TextOf("plain"), Str(<<>>), Arr(<<>>)}
\* The environments of these calls: a variable may also hold text that has
\* the form of a placeholder, of the other variable or of itself.
NestingValues == {EnvSet(<<Ph("B")>>), EnvSet(<<Lit("x"), Ph("A")>>)}
InterpolatorEnvs == [VarNames -> EnvValues \cup NestingValues]
InterpolatorInputs ==
    {In(f, "value", FALSE, "ok", v) :
        f \in {"interpolateEnv", "interpolateCommand", "interpolateConfig"},
        v \in InterpolationValues}

\* What the call gives: the value returned, or the error thrown at
\* env-interpolator.ts:33-36.  interpolateEnv returns what is not a string
\* as it is (lines 26-28).
InterpolatorOutcome(inp, e) ==
    LET r == CASE inp.entry = "interpolateEnv" ->
                    IF inp.value.kind # "string"
                    THEN [ok |-> TRUE, val |-> inp.value, missing |-> NoMissing]
                    ELSE LET t == interpolateEnv(inp.value.str, e)
                         IN  [ok |-> t.ok, val |-> Str(t.str), missing |-> t.missing]
               [] inp.entry = "interpolateCommand" -> interpolateCommand(inp.value, e)
               [] OTHER -> interpolateConfig(inp.value, e)
    IN  IF r.ok THEN Returned(r.val, <<"interpolate">>, Null)
        ELSE Threw(<<"Environment variable not found: ", r.missing>>,
                   "interpolation-error", <<"interpolate">>, Null)

InterpolatorInit ==
    /\ registry = [n \in CommandNames |-> NoExecutor]
    /\ config = NoConfig
    /\ ctx = BlankContext
    /\ ExecuteNotCalled
    /\ input \in InterpolatorInputs
    /\ schemaModule = "generic"
    /\ env \in InterpolatorEnvs
    /\ outcome = NoOutcome
    /\ regLog = <<>>
    /\ caller = PlainCaller
    /\ peer = NoCall

\* Mutant of InterpolatorCall: the strings of the value are replaced in the
\* value itself, which is returned.
InterpolatorCall_InPlace ==
    /\ outcome.status = "none"
    /\ outcome' = InterpolatorOutcome(input, env)
    /\ input' = IF outcome'.status = "returned"
                THEN [input EXCEPT !.value = outcome'.value] ELSE input
    /\ UNCHANGED <<schemaModule, env, regLog, caller, peer>>
    /\ UNCHANGED xvars

\* A call of interpolateEnv, interpolateCommand or interpolateConfig.
InterpolatorCall ==
    /\ outcome.status = "none"
    /\ outcome' = InterpolatorOutcome(input, env)
    /\ UNCHANGED <<schemaModule, env, input, regLog, caller, peer>>
    /\ UNCHANGED xvars

InterpolatorNext == InterpolatorCall

SpecInterpolator == InterpolatorInit /\ [][InterpolatorNext]_vars


\* ------------------------------------------------------ claims: helpers
\* Positions of context.results holding a failed result.
FailedPositions == {p \in 1..Len(ctx.results) : ~ctx.results[p].success}
MinOf(S) == CHOOSE m \in S : \A n \in S : m <= n
\* Number of commands of the configuration.
N == Len(config.commands)
\* The results this execute call has appended so far.
RunResults == SubSeq(ctx.results, base + 1, Len(ctx.results))

\* ---------------------------------------------------------------- C1
\* C1: with continueOnError=false and an initially empty result list, once
\* the command at index k is the first with an unsuccessful result, execute
\* has returned, the result sequence has exactly k+1 entries, and no
\* executor was invoked (or is pending) for a command of index above k.
C1_StopOnError ==
    (base = 0 /\ ~ctx.continueOnError /\ FailedPositions # {}) =>
        LET k == MinOf(FailedPositions) - 1
        IN  /\ pc = "done"
            /\ Len(ctx.results) = k + 1
            /\ Len(RetResults) = k + 1
            /\ \A c \in 1..Len(calls) : calls[c].commandIndex <= k
            /\ pending = {}

\* A two-command run stopped after its first command failed.
C1_Witness ==
    /\ pc = "done" /\ base = 0 /\ ~ctx.continueOnError
    /\ N = 2
    /\ Len(ctx.results) = 1
    /\ ~ctx.results[1].success

C3_Original ==
    pc = "done" =>
        \A p \in 1..Len(RetResults) : RetResults[p].commandIndex = p - 1

\* C3 amended: in a run that starts with an empty result list, the result at
\* position i is the one produced at loop index i; its commandIndex is i
\* when the engine synthesized it, and the executor of command i was passed
\* i and its result is stored with the commandIndex it returned.
C3_CommandIndex ==
    (pc = "done" /\ base = 0) =>
        \A p \in 1..Len(RetResults) :
            /\ RetResults[p] = produced[p].result
            /\ produced[p].index = p - 1
            /\ produced[p].by \in {"unknown", "caught"} =>
                   RetResults[p].commandIndex = p - 1
            /\ produced[p].by = "executor" =>
                   \E c \in 1..Len(calls) :
                       /\ calls[c].commandIndex = p - 1
                       /\ calls[c].command = config.commands[p]

\* A returned run whose second result was synthesized by the engine and
\* whose first was returned by an executor with another commandIndex.
C3_Witness ==
    /\ pc = "done" /\ base = 0
    /\ Len(RetResults) = 2
    /\ produced[1].by = "executor" /\ RetResults[1].commandIndex # 0
    /\ produced[2].by = "unknown" /\ RetResults[2].commandIndex = 1

\* ---------------------------------------------------------------- C4
\* C4: dispatching a command whose name has no registered executor at that
\* moment yields a result with success=false, type execution_error, a
\* message naming the command, and the command's index, and invokes no
\* executor.
C4_UnknownCommand ==
    [][(pc = "loop" /\ registry[config.commands[i + 1]] = NoExecutor) =>
          /\ pc' = "resume"
          /\ result' = [command |-> config.commands[i + 1],
                        commandIndex |-> i,
                        success |-> FALSE,
                        errType |-> "execution_error",
                        message |-> <<"Unknown command type: ",
                                      config.commands[i + 1]>>,
                        newWindow |-> NoWindow]
          /\ calls' = calls
          /\ pending' = {}]_vars

\* The second command of a run was dispatched with no executor registered,
\* after the first was run by one.
C4_Witness ==
    /\ pc = "resume" /\ i = 1
    /\ Len(produced) = 2 /\ produced[2].by = "unknown"
    /\ Len(calls) = 1
    /\ result.errType = "execution_error"

\* ---------------------------------------------------------------- C5
\* C5 as stated: whatever an executor does (return, throw or reject with any
\* value, null and undefined included), execute returns an ExecutionResult
\* and never rejects, and each failed invocation is in the results as a
\* failed result of type execution_error with the failure's message.
C5_Original ==
    /\ pc # "rejected"
    /\ \A k \in 1..Len(produced) :
          produced[k].by = "caught" =>
              /\ ~produced[k].result.success
              /\ produced[k].result.errType = "execution_error"

\* ---------------------------------------------------------------- C6
\* C6: at most one executor invocation is in flight, and while the executor
\* of command i is in flight the results of all commands before i have been
\* appended and a window replacement due after command i-1 is complete.
C6_Sequential ==
    /\ Cardinality(pending) <= 1
    /\ pending # {} => pc = "awaitExecutor"
    /\ pc = "awaitExecutor" =>
          /\ pending = {i}
          /\ Len(calls) = Cardinality({calls[c].commandIndex : c \in 1..Len(calls)})
          /\ calls[Len(calls)].commandIndex = i
          /\ Len(ctx.results) = base + i
          /\ \A k \in 1..i : ctx.results[base + k] = produced[k].result
          /\ (/\ i >= 1
              /\ ctx.backend = "happy-dom"
              /\ config.commands[i] \in {"navigate", "click", "submit"}
              /\ produced[i].result.success
              /\ produced[i].result.newWindow # NoWindow)
             => /\ ctx.window = produced[i].result.newWindow
                /\ currentWindow = ctx.window

\* The second executor of a run is in flight after the first command led to
\* a window replacement that had to release a window.
C6_Witness ==
    /\ pc = "awaitExecutor" /\ i = 1
    /\ Len(ctx.results) = base + 1
    /\ released # {}
    /\ ctx.window = produced[1].result.newWindow

\* ---------------------------------------------------------------- C7
\* The previous command of the run returned a successful result with a
\* replacement window and is one of navigate, click, submit.
ReplacementSignalled ==
    /\ i >= 1 /\ Len(produced) >= i
    /\ config.commands[i] \in {"navigate", "click", "submit"}
    /\ produced[i].by = "executor"
    /\ produced[i].result.success
    /\ produced[i].result.newWindow # NoWindow

\* The next command is about to be dispatched, or its executor runs.
NextDispatch ==
    /\ pc \in {"loop", "awaitExecutor"}
    /\ Len(produced) = i

\* The new handle is installed and is what the next executor was given.
NewHandleInstalled ==
    /\ ctx.window = produced[i].result.newWindow
    /\ pc = "awaitExecutor" =>
           calls[Len(calls)].window = produced[i].result.newWindow

C8_WindowFrame ==
    [][/\ (/\ pc = "resume"
           /\ \/ config.commands[i + 1] \notin {"navigate", "click", "submit"}
              \/ ~result.success
              \/ result.newWindow = NoWindow)
          => (ctx'.window = ctx.window /\ pc' # "awaitAbort")
       /\ ctx'.window # ctx.window
          => /\ pc \in {"resume", "awaitAbort"}
             /\ config.commands[i + 1] \in {"navigate", "click", "submit"}
             /\ produced[i + 1].result.success
             /\ ctx'.window = produced[i + 1].result.newWindow]_vars

\* On happy-dom, a fill whose successful result carried a newWindow, or a
\* failed navigate that carried one, left the window the executor was given.
C8_Witness ==
    /\ pc = "done" /\ ctx.backend = "happy-dom"
    /\ Len(produced) = 1
    /\ produced[1].result.newWindow # NoWindow
    /\ \/ produced[1].command = "fill" /\ produced[1].result.success
       \/ produced[1].command = "navigate" /\ ~produced[1].result.success
    /\ ctx.window = calls[1].window
    /\ ctx.window # produced[1].result.newWindow

\* ---------------------------------------------------------------- C9
\* C9: in the returned ExecutionResult success holds exactly when
\* errorCount is 0, successCount and errorCount count the results with
\* success=true and success=false, and they add up to the number of results.
C9_Counts ==
    pc = "done" =>
        /\ ret.success <=> (ret.errorCount = 0)
        /\ ret.successCount =
               Cardinality({p \in 1..Len(RetResults) : RetResults[p].success})
        /\ ret.errorCount =
               Cardinality({p \in 1..Len(RetResults) : ~RetResults[p].success})
        /\ ret.successCount + ret.errorCount = Len(RetResults)

\* A returned result with a success, a failure returned by an executor and
\* a failure synthesized by the engine.
C9_Witness ==
    /\ pc = "done"
    /\ ret.successCount = 1 /\ ret.errorCount = 2
    /\ \E p \in 1..Len(RetResults) : RetResults[p].errType = "selector_not_found"
    /\ \E p \in 1..Len(RetResults) : RetResults[p].errType = "execution_error"

\* ---------------------------------------------------------------- C10
\* C10: totalCommands of the returned ExecutionResult is the number of
\* declared commands, also when the run stopped early.
C10_TotalCommands ==
    pc = "done" => ret.totalCommands = Len(config.commands)

\* A run of two commands that stopped after one result.
C10_Witness ==
    /\ pc = "done"
    /\ ret.totalCommands = 2
    /\ Len(RetResults) = 1

\* ------------------------------------------- claims on loading: helpers
\* The call has returned or thrown.
Decided == outcome.status \in {"returned", "threw"}

\* The call goes through the text pipeline, on a text that exists.
TextPipeline == input.form \in {"text", "path"} /\ input.exists

\* The call is given an object or an array built in memory.
InMemory == input.form \in {"object", "array"}

\* The object the schema is given for an in-memory input (index.ts:76-79).
Candidate ==
    IF input.form = "array"
    THEN Obj(<<"version", "commands">>, <<TextOf("1"), input.value>>)
    ELSE input.value

\* The four kinds of loader failure.
LoaderFailureKinds ==
    {"file-not-found", "parse-error", "interpolation-error", "validation-error"}

\* ---------------------------------------------------------------- C11
\* C11: when executeOperation is given an input that fails to load (missing
\* file, parse error, interpolation error or validation error), it fails
\* with that one error: execute is never entered, no executor is invoked for
\* any command and no CommandResult is produced.
C11_LoadPrecedesExecution ==
    /\ []((input.entry = "executeOperation" /\ outcome.status = "threw") =>
            /\ outcome.kind \in LoaderFailureKinds
            /\ outcome.message # <<>>
            /\ pc = "idle"
            /\ calls = <<>>
            /\ produced = <<>>
            /\ ctx.results = <<>>
            /\ ret = NoReturn)
    /\ [][(input.entry = "executeOperation" /\ outcome.status = "threw") =>
            UNCHANGED xvars]_vars

\* executeOperation was given the path of a file that refers to an unset
\* variable, and the load threw.
C11_Witness ==
    /\ input.entry = "executeOperation"
    /\ input.form = "path"
    /\ outcome.status = "threw"
    /\ outcome.kind = "interpolation-error"

\* ---------------------------------------------------------------- C12
\* The input is a configuration whose commands array is empty.
ZeroCommands ==
    /\ input.syntax = "ok"
    /\ \/ input.form = "array" /\ input.value.items = <<>>
       \/ /\ input.form # "array"
          /\ input.value.kind = "object"
          /\ HasKey(input.value, "commands")
          /\ Get(input.value, "commands") = Arr(<<>>)

\* C12: loading a configuration with zero commands fails through every entry
\* point (when the schema is reached, with 'at least one command is
\* required'), and every configuration a load returns, or execute is given,
\* has at least one command.
C12_AtLeastOneCommand ==
    /\ (Decided /\ ZeroCommands) =>
          /\ outcome.status = "threw"
          /\ "validate" \in {outcome.stages[k] : k \in 1..Len(outcome.stages)} =>
                /\ outcome.kind = "validation-error"
                /\ \E k \in 1..Len(outcome.message) :
                      outcome.message[k] = "at least one command is required"
    /\ outcome.status = "returned" =>
          Len(Get(outcome.value, "commands").items) >= 1
    /\ outcome.status = "executing" => Len(config.commands) >= 1

\* executeOperation was given an empty Command[] array, and the load threw.
C12_Witness ==
    /\ input.entry = "executeOperation"
    /\ input.form = "array"
    /\ input.value.items = <<>>
    /\ outcome.status = "threw"
    /\ outcome.kind = "validation-error"

\* ---------------------------------------------------------------- C13
\* The value has, at some depth, a string value with the placeholder of x.
RECURSIVE ValueRefersTo(_, _)
ValueRefersTo(v, x) ==
    \/ v.kind = "string" /\ \E k \in 1..Len(v.str) : v.str[k] = Ph(x)
    \/ \E k \in 1..Len(v.items) : ValueRefersTo(v.items[k], x)

\* The value has, at some depth, a record key that is the placeholder of x.
RECURSIVE KeyRefersTo(_, _)
KeyRefersTo(v, x) ==
    \/ \E k \in 1..Len(v.keys) : v.keys[k] = "${getenv:" \o x \o "}"
    \/ \E k \in 1..Len(v.items) : KeyRefersTo(v.items[k], x)

\* The message names the variable.
Names(message, x) == \E k \in 1..Len(message) : message[k] = x

\* The load failed in the interpolator, and gave no configuration.
InterpolationFailure ==
    /\ outcome.status = "threw"
    /\ outcome.kind = "interpolation-error"
    /\ outcome.value = Null

\* C13 as stated: whenever the document of a text or file load contains, at
\* any depth, the placeholder of an unset variable X, the load fails with an
\* interpolation error that names X.
C13_Original ==
    (Decided /\ TextPipeline /\ input.syntax = "ok") =>
        \A x \in VarNames :
            (~env[x].set /\ (ValueRefersTo(input.value, x) \/ KeyRefersTo(input.value, x)))
                => (InterpolationFailure /\ Names(outcome.message, x))

\* The unset variables the string values of the document refer to.
UnsetReferences == {x \in VarNames : ~env[x].set /\ ValueRefersTo(input.value, x)}

\* C13, amended: whenever the document of a text or file load is a record or
\* a sequence and a string value in it, at any depth, has the placeholder of
\* an unset variable, the load fails with an interpolation error, returns no
\* configuration, and the message names one of the unset variables the
\* document's values refer to (so X itself when X is the only one), whatever
\* other placeholders resolve.  A placeholder in a record key is not
\* interpolated and fails nothing.
C13_MissingVariable ==
    (Decided /\ TextPipeline /\ input.syntax = "ok"
       /\ input.value.kind \in {"object", "array"}) =>
        /\ UnsetReferences # {} =>
              /\ InterpolationFailure
              /\ \E x \in UnsetReferences : Names(outcome.message, x)
        /\ UnsetReferences = {} => outcome.kind # "interpolation-error"

\* A document refers to an unset variable and to a set one, and the load
\* failed naming the unset one.
C13_Witness ==
    /\ TextPipeline
    /\ InterpolationFailure
    /\ \E x, y \in VarNames :
          /\ ~env[x].set /\ ValueRefersTo(input.value, x)
          /\ env[y].set /\ ValueRefersTo(input.value, y)
          /\ Names(outcome.message, x)

\* ---------------------------------------------------------------- C14
\* The stages of the text pipeline, in order.
PipelineStages == <<"parse", "interpolate", "validate">>

\* The value has a placeholder left in a string value.
RECURSIVE HasPlaceholder(_)
HasPlaceholder(v) ==
    \/ v.kind = "string" /\ \E k \in 1..Len(v.str) : IsPlaceholder(v.str[k])
    \/ \E k \in 1..Len(v.items) : HasPlaceholder(v.items[k])

\* The schema of the loader rejects the value.
SchemaRejects(v) == SchemaParse(schemaModule, v).issues # <<>>

\* C14: in the text pipeline the stages run in the order parse, interpolate,
\* validate, each only after the one before it succeeded: the schema is
\* given the interpolated document, in which no placeholder is left, so a
\* document that refers to an unset variable and also violates the schema
\* fails with the interpolation error, and a load fails validation exactly
\* when the substituted document violates the schema.
C14_StageOrder ==
    (Decided /\ TextPipeline) =>
        /\ outcome.stages = SubSeq(PipelineStages, 1, Len(outcome.stages))
        /\ outcome.stages # <<>>
        /\ Len(outcome.stages) = 3 =>
              /\ outcome.validated = interpolateConfig(input.value, env).val
              /\ ~HasPlaceholder(outcome.validated)
              /\ outcome.kind = "validation-error" <=> SchemaRejects(outcome.validated)
        /\ (input.syntax = "ok" /\ input.value.kind = "object"
              /\ UnsetReferences # {} /\ SchemaRejects(input.value)) =>
                 outcome.kind = "interpolation-error"

\* A document whose version is a placeholder passes the schema as written,
\* and fails validation because the variable is set to the empty string.
C14_Witness ==
    /\ TextPipeline
    /\ input.value.kind = "object"
    /\ HasKey(input.value, "version")
    /\ Get(input.value, "version") = Str(<<Ph("A")>>)
    /\ env["A"] = EnvSet(<<>>)
    /\ ~SchemaRejects(input.value)
    /\ outcome.kind = "validation-error"
    /\ Names(outcome.message, "version cannot be empty")

\* ---------------------------------------------------------------- C15
\* The strings of a value, at every depth.
RECURSIVE StringsOf(_)
StringsOf(v) ==
    (IF v.kind = "string" THEN {v.str} ELSE {})
    \cup UNION {StringsOf(v.items[k]) : k \in 1..Len(v.items)}

\* C15: a load of an in-memory object or array (validate, load with an
\* object, executeOperation with an object or a Command[] array) never runs
\* the interpolator: the outcome is the same in every environment, it is
\* never an interpolation error, and every string of the returned
\* configuration is a string of the input as it was written, placeholders
\* included.
C15_NoInterpolationInMemory ==
    (Decided /\ InMemory) =>
        /\ \A k \in 1..Len(outcome.stages) : outcome.stages[k] # "interpolate"
        /\ outcome.kind # "interpolation-error"
        /\ \A e \in Envs : Call(schemaModule, input, e) = outcome
        /\ outcome.status = "returned" =>
              StringsOf(outcome.value) \subseteq StringsOf(Candidate)

\* executeOperation was given an object with the placeholder of an unset
\* variable, and the load returned it with the placeholder in it.
C15_Witness ==
    /\ input.entry = "executeOperation"
    /\ input.form = "object"
    /\ outcome.status = "returned"
    /\ \E x \in VarNames : ~env[x].set /\ ValueRefersTo(outcome.value, x)

\* ---------------------------------------------------------------- C16
\* One failing call of each kind through each entry point that has it: a
\* missing file, a text with a syntax error, a text that refers to an unset
\* variable, and a configuration without commands.
SampleDocs ==
    {Record(<<"version", "commands">>, <<Str(<<Ph("A")>>), Arr(<<cFill>>)>>),
     Record(<<"version", "commands">>, <<TextOf("1"), Arr(<<>>)>>)}
SampleCalls ==
    Texts("parseYaml", "text", SampleDocs)
    \cup Texts("loadFromFile", "path", SampleDocs)
    \cup Texts("load", "path", SampleDocs)
    \cup {In("loadFromFile", "path", FALSE, "ok", Null),
          In("load", "path", FALSE, "ok", Null)}
    \cup {In(entry, "object", FALSE, "ok", v) :
            entry \in {"load", "validate"}, v \in SampleDocs}

\* The texts with which the messages of the sample failures of each kind
\* begin, in an environment without variables.
PrefixesByKind ==
    LET outcomes == {Call(m, inp, [x \in VarNames |-> EnvUnset]) :
                        m \in SchemaModules, inp \in SampleCalls}
    IN  [kind \in LoaderFailureKinds |->
            {Head(o.message) : o \in {f \in outcomes : f.kind = kind}}]

\* C16 as stated: the message of a loader failure begins with a prefix that
\* identifies its kind: no failure of another of the four kinds, through any
\* entry point, begins with the same prefix.
C16_Original ==
    (outcome.status = "threw" /\ outcome.kind \in LoaderFailureKinds) =>
        \A other \in LoaderFailureKinds \ {outcome.kind} :
            Head(outcome.message) \notin PrefixesByKind[other]

\* ---------------------------------------------------------------- C17
\* C17: for every object ConfigLoader.validate accepts, validating the value
\* it returned succeeds and returns that same value.
C17_ValidateIdempotent ==
    (input.entry = "validate" /\ outcome.status = "returned") =>
        LET again == validate(schemaModule, outcome.value, env)
        IN  /\ again.status = "returned"
            /\ again.value = outcome.value

\* validate returned a value that differs from the object it was given:
\* keys were dropped or came out in another order.
C17_Witness ==
    /\ input.entry = "validate"
    /\ outcome.status = "returned"
    /\ outcome.value # input.value

\* ---------------------------------------------------------------- C18
\* The record has a non-empty string as command and, if it has a
\* description, a string as description.
WellFormedCommand(c) ==
    /\ c.kind = "object"
    /\ HasKey(c, "command")
    /\ Get(c, "command").kind = "string"
    /\ Get(c, "command").str # <<>>
    /\ HasKey(c, "description") => Get(c, "description").kind = "string"

\* The candidate is { version: '1', commands: [...] } with one command or more.
OnlyCommandsVary ==
    /\ Candidate.kind = "object"
    /\ Candidate.keys \in {<<"version", "commands">>, <<"commands", "version">>}
    /\ Get(Candidate, "version") = TextOf("1")
    /\ Get(Candidate, "commands").kind = "array"
    /\ Get(Candidate, "commands").items # <<>>

\* C18 as stated: the schema accepts a command record exactly when its
\* command is a non-empty string and its description, if any, is a string,
\* whatever the name and the other fields: a configuration that is otherwise
\* in order loads exactly when each of its commands is such a record.
C18_Original ==
    (Decided /\ InMemory /\ OnlyCommandsVary) =>
        LET commands == Get(Candidate, "commands").items
        IN  /\ outcome.status = "returned" <=>
                  \A k \in 1..Len(commands) : WellFormedCommand(commands[k])
            /\ \A k \in 1..Len(commands) :
                  CommandSchemaAccepts(schemaModule, commands[k])
                      <=> WellFormedCommand(commands[k])

\* ---------------------------------------------------------------- C19
\* The keys the schema enumerates for the record at hand.
ConfigKeys == ShapeKeys(IF schemaModule = "generic" THEN "config:generic" ELSE "config:closed")
SettingsKeys ==
    ShapeKeys(IF schemaModule = "generic" THEN "settings:generic" ELSE "settings:closed")
CommandKeys(c) ==
    IF schemaModule = "generic" THEN ShapeKeys("command:generic")
    ELSE ShapeKeys(Get(c, "command").str[1].text)

\* Every key of the record given that is not among the known ones is in the
\* record returned, with the same value.
KeepsUnknown(given, returned, known) ==
    \A k \in 1..Len(given.keys) :
        given.keys[k] \notin known =>
            /\ HasKey(returned, given.keys[k])
            /\ Get(returned, given.keys[k]) = given.items[k]

\* C19 as stated: a validation that succeeds keeps every field the schema
\* does not enumerate, with its value, on the top-level record, on settings
\* and on each command, and keeps the commands in their order.
C19_Original ==
    outcome.status = "returned" =>
        LET given == outcome.validated
            returned == outcome.value
            before == Get(given, "commands").items
            after == Get(returned, "commands").items
        IN  /\ KeepsUnknown(given, returned, ConfigKeys)
            /\ HasKey(given, "settings") =>
                  KeepsUnknown(Get(given, "settings"), Get(returned, "settings"),
                               SettingsKeys)
            /\ Len(after) = Len(before)
            /\ \A k \in 1..Len(before) :
                  /\ Get(after[k], "command") = Get(before[k], "command")
                  /\ KeepsUnknown(before[k], after[k], CommandKeys(before[k]))

\* ---------------------------------------------------------------- C20
\* The positions of the log at which the name was registered.
RegistrationsOf(name) == {k \in 1..Len(regLog) : regLog[k].name = name}

\* The executor of the latest registerCommand call for the name, if any.
LastRegistered(name) ==
    IF RegistrationsOf(name) = {} THEN NoExecutor
    ELSE regLog[CHOOSE k \in RegistrationsOf(name) :
                   \A j \in RegistrationsOf(name) : j <= k].executor

\* C20: after any sequence of registerCommand calls, getCommandExecutor(name)
\* is the executor of the latest call for that name, and undefined for a
\* name never registered; so a registration of one name leaves the lookup of
\* every other name as it was.
C20_LastRegistrationWins ==
    /\ \A name \in CommandNames : getCommandExecutor(name) = LastRegistered(name)
    /\ getRegisteredCommands = {regLog[k].name : k \in 1..Len(regLog)}

\* A name was registered twice with different executors, another name once
\* in between, and a third never.
C20_Witness ==
    /\ Len(regLog) = 3
    /\ regLog[1].name = regLog[3].name
    /\ regLog[1].executor # regLog[3].executor
    /\ regLog[2].name # regLog[1].name
    /\ \E name \in CommandNames : RegistrationsOf(name) = {}

\* ---------------------------------------------------------------- C21
\* executeOperation has loaded the configuration and built the context, and
\* has not called execute yet.
ContextBuilt == input.entry = "executeOperation" /\ outcome.status = "returned"

\* C21 as stated: for each of baseUrl, timeout and continueOnError the value
\* in the built context is the caller's value whenever the caller set the
\* field (false, 0 and the empty string included), otherwise the value of
\* config.settings when it has one, otherwise the built-in default
\* (continueOnError false, timeout 5000).
C21_Original ==
    ContextBuilt =>
        /\ ctx.continueOnError =
              IF caller.continueOnError.set THEN caller.continueOnError.val
              ELSE IF Setting(outcome.value, "continueOnError") # Absent
              THEN Setting(outcome.value, "continueOnError").bool
              ELSE FALSE
        /\ ctx.timeout =
              IF caller.timeout.set THEN caller.timeout.val
              ELSE IF Setting(outcome.value, "timeout") # Absent
              THEN Setting(outcome.value, "timeout").num
              ELSE 5000
        /\ caller.baseUrl.set => ctx.baseUrl = caller.baseUrl.val
        /\ (~caller.baseUrl.set /\ Setting(outcome.value, "baseUrl") # Absent)
              => ctx.baseUrl = Setting(outcome.value, "baseUrl").str

\* ---------------------------------------------------------------- C22
\* C22: the engine never interrupts an executor.  While the executor of
\* command i has not completed, execute is suspended on it and has not
\* returned, no result for command i is in the results, no command after i
\* has been dispatched, and no step that leaves the executor incomplete
\* changes that, whatever the timeout in the context.
C22_NoInterruption ==
    /\ [](pending # {} =>
            /\ pending = {i}
            /\ pc = "awaitExecutor"
            /\ Len(ctx.results) = base + i
            /\ Len(produced) = i
            /\ \A c \in 1..Len(calls) : calls[c].commandIndex <= i)
    /\ [][(i \in pending /\ i \in pending') =>
             /\ pc' = pc /\ i' = i /\ ret' = ret
             /\ ctx' = ctx /\ calls' = calls /\ produced' = produced]_vars

\* The executor of the second command is in flight under a timeout taken
\* from the settings, and a registration was made while it was.
C22_Witness ==
    /\ pc = "awaitExecutor" /\ i = 1 /\ pending = {1}
    /\ ctx.timeout = 10
    /\ Len(ctx.results) = 1
    /\ registry["fill"] = "e2"
    /\ calls[Len(calls)].executor = "e1"

\* ---------------------------------------------------------------- C23
\* C23: releasing the old window is best-effort.  The release of the old
\* handle is under way before the new one is installed, and when the release
\* settles, with an error or without, the new handle becomes the active one,
\* the command's result stays in the results as a success, and the run goes
\* on with the next command (or returns after the last one).
C23_BestEffortRelease ==
    /\ [](/\ abortFailed \subseteq released
          /\ pc = "awaitAbort" =>
                /\ currentWindow \in released
                /\ ctx.window = currentWindow
                /\ ctx.window # result.newWindow)
    /\ [][(pc = "awaitAbort" /\ pc' # "awaitAbort") =>
             /\ ctx'.window = result.newWindow
             /\ currentWindow' = result.newWindow
             /\ ctx'.results = ctx.results
             /\ ctx.results[Len(ctx.results)] = result
             /\ result.success
             /\ IF i + 1 < Len(config.commands)
                THEN pc' = "loop" /\ i' = i + 1
                ELSE pc' = "done" /\ ret'.success = (CountError(ctx.results) = 0)]_vars

\* The release of the first window failed, and the second command's
\* executor runs with the new window after a successful first result.
C23_Witness ==
    /\ pc = "awaitExecutor" /\ i = 1
    /\ abortFailed # {}
    /\ calls[1].window \in abortFailed
    /\ ctx.window = produced[1].result.newWindow
    /\ calls[2].window = ctx.window
    /\ ctx.results[Len(ctx.results)].success

\* ---------------------------------------------------------------- C24
\* context.requestResult?.remapper.
RemapperOf(c, h) ==
    IF c.requestResult = NoRequestResult THEN NoRemapper ELSE h[c.requestResult]

\* C24: session state is migrated forward on window replacement.  When the
\* context's request/session state had a remapper before a replacement it
\* has one after it: the new handle's own when it brings one, otherwise the
\* previous one.  When the new handle carries no request/session state the
\* context's state is left as it was.  No step of the engine takes a
\* remapper away from the context.
C24_SessionMigration ==
    /\ [][ctx'.window # ctx.window =>
            LET carried == WindowRequestResult(ctx'.window)
                own == IF carried = NoRequestResult THEN NoRemapper
                       ELSE heap[carried]
            IN  /\ RemapperOf(ctx, heap) # NoRemapper =>
                      RemapperOf(ctx', heap') =
                          IF own # NoRemapper THEN own ELSE RemapperOf(ctx, heap)
                /\ carried = NoRequestResult =>
                      /\ ctx'.requestResult = ctx.requestResult
                      /\ heap' = heap
                /\ carried # NoRequestResult => ctx'.requestResult = carried]_vars
    /\ [][RemapperOf(ctx, heap) # NoRemapper =>
            RemapperOf(ctx', heap') # NoRemapper]_vars

\* After a replacement by a window that has request/session state without a
\* remapper, the context holds the window's state with the caller's remapper.
C24_Witness ==
    /\ ctx.window = "w2"
    /\ ctx.requestResult = "w2"
    /\ heap["w2"] = "m0"
    /\ "w1" \in released

\* ---------------------------------------------------------------- C27
\* C27 as stated: an ExecutionResult is terminal.  Once execute has returned
\* it, no later step of the engine, a later execute call with the same
\* context object included, changes its result sequence or its counts, and
\* its counts stay consistent with its result sequence.
C27_Original ==
    /\ [](ret.kind = "ExecutionResult" =>
             /\ ret.successCount = CountSuccess(RetResults)
             /\ ret.errorCount = CountError(RetResults)
             /\ ret.successCount + ret.errorCount = Len(RetResults))
    /\ [][(ret.kind = "ExecutionResult" /\ ret' = ret) =>
             RetResults' = RetResults]_vars

\* ---------------------------------------------------------------- C30
\* execute has been called and has not returned.
InExecute == pc \in {"loop", "awaitExecutor", "resume", "awaitAbort"}

\* C30 as stated: when every executor invocation completes (returns or
\* fails), execute returns an ExecutionResult, having dispatched each
\* command at most once, in at most N loop iterations and with no retry.
C30_Original ==
    /\ InExecute ~> (pc = "done" /\ ret.kind = "ExecutionResult")
    /\ [](/\ i < N
          /\ Len(produced) <= N
          /\ \A k \in 1..Len(produced) : produced[k].index = k - 1
          /\ \A c, d \in 1..Len(calls) :
                calls[c].commandIndex = calls[d].commandIndex => c = d)

\* ------------------------------------------ claims on interpolation: helpers
\* The names of the model's tokens that are well formed ([A-Z_][A-Z0-9_]*),
\* and those that are not: lower case, mixed case, a digit first.
WellFormedNames == {"A", "B", "A_1", "_A"}
IllFormedNames == {"a", "Ab", "1A"}

\* The value of a variable; a variable the environment does not hold is unset.
ValueOf(e, x) == IF x \in DOMAIN e /\ e[x].set THEN e[x].text ELSE <<>>
IsSet(e, x) == x \in DOMAIN e /\ e[x].set

\* The well-formed placeholders of the string values of v, at any depth.
RECURSIVE PlaceholderNames(_)
PlaceholderNames(v) ==
    IF v.kind = "string"
    THEN {v.str[k].text : k \in {j \in 1..Len(v.str) :
                                   v.str[j].tk = "ph" /\ v.str[j].text \in WellFormedNames}}
    ELSE UNION {PlaceholderNames(v.items[k]) : k \in 1..Len(v.items)}

\* The text of a string with every well-formed placeholder from position k
\* on replaced by the value of its variable.
RECURSIVE Expanded(_, _, _)
Expanded(pieces, k, e) ==
    IF k > Len(pieces) THEN <<>>
    ELSE (IF pieces[k].tk = "ph" /\ pieces[k].text \in WellFormedNames
          THEN ValueOf(e, pieces[k].text)
          ELSE <<pieces[k]>>) \o Expanded(pieces, k + 1, e)

\* out is in with the placeholders of its strings replaced: the same kind of
\* value, the same keys in the same order, as many elements, each of them
\* the replaced element at its position.
RECURSIVE Substituted(_, _, _)
Substituted(in, out, e) ==
    /\ out.kind = in.kind
    /\ CASE in.kind = "string" -> out = Str(Expanded(in.str, 1, e))
         [] in.kind \in {"array", "object"} ->
              /\ out.keys = in.keys
              /\ Len(out.items) = Len(in.items)
              /\ \A k \in 1..Len(in.items) : Substituted(in.items[k], out.items[k], e)
              /\ out = [in EXCEPT !.items = out.items]
         [] OTHER -> out = in

\* ---------------------------------------------------------------- C28
\* C28 as stated: the interpolator replaces every occurrence of a placeholder in every
\* string value, at any depth of nested records and sequences and however
\* many there are in one string, with the environment value of its variable,
\* and returns numbers, booleans and null as they are; structure, keys and
\* element order are kept.  It returns when every variable referred to is set.
C28_Original ==
    (outcome.status # "none"
     /\ input.entry \in {"interpolateCommand", "interpolateConfig"}) =>
        /\ outcome.status = "returned" <=>
              \A x \in PlaceholderNames(input.value) : IsSet(env, x)
        /\ outcome.status = "returned" =>
              Substituted(input.value, outcome.value, env)
        /\ (outcome.status = "returned"
            /\ input.value.kind \in {"number", "boolean", "null"}) =>
              outcome.value = input.value

\* ---------------------------------------------------------------- C29
\* The tokens of a value whose names are not well formed, in document order.
RECURSIVE IllFormedTokens(_)
RECURSIVE IllFormedTokensOf(_, _)
IllFormedTokensOf(items, k) ==
    IF k > Len(items) THEN <<>>
    ELSE IllFormedTokens(items[k]) \o IllFormedTokensOf(items, k + 1)
IllFormedTokens(v) ==
    IF v.kind = "string"
    THEN SelectSeq(v.str, LAMBDA p : p.tk = "ph" /\ p.text \in IllFormedNames)
    ELSE IllFormedTokensOf(v.items, 1)

\* C29: a token ${getenv:NAME} whose NAME does not match [A-Z_][A-Z0-9_]* is
\* not a placeholder: it stays in the string as it is, it is not looked up,
\* and it never makes the interpolation fail.
C29_IllFormedTokenKept ==
    outcome.status # "none" =>
        /\ PlaceholderNames(input.value) = {} => outcome.status = "returned"
        /\ (PlaceholderNames(input.value) = {} /\ input.value.kind = "string") =>
              outcome.value = input.value
        /\ outcome.status = "returned" =>
              IllFormedTokens(outcome.value) = IllFormedTokens(input.value)
        /\ outcome.status = "threw" =>
              /\ outcome.message[2] \in PlaceholderNames(input.value)
              /\ ~IsSet(env, outcome.message[2])

\* A string of three ill-formed tokens came back as it was, with every
\* variable unset; and so did a string that has a placeholder next to one.
C29_Witness ==
    /\ outcome.status = "returned"
    /\ \/ /\ input.value = vTokens
          /\ \A x \in VarNames : ~env[x].set
          /\ outcome.value = vTokens
       \/ /\ input.value = vMixed
          /\ outcome.value.items[1] = Str(<<Ph("a"), Lit("fill")>>)

\* ---------------------------------------------------------------- C26
\* C26 as stated: parseYaml rejects every document whose top-level value is
\* not a record (a scalar, null or the empty document, a sequence): it fails
\* and returns no configuration, and the interpolator is not what reports
\* the failure.
C26_Original ==
    (/\ input.entry = "parseYaml"
     /\ input.syntax = "ok"
     /\ input.value.kind # "object"
     /\ Decided) =>
        /\ outcome.status = "threw"
        /\ outcome.value = Null
        /\ outcome.kind # "interpolation-error"
        /\ \A k \in 1..Len(outcome.message) :
              outcome.message[k] # "Failed to interpolate environment variables: "

\* ---------------------------------------------------------------- C25
\* The text that introduces the diagnostics.
ValidationPrefix == "Configuration validation failed:\n"

\* The message from the segment after the first occurrence of a segment on.
After(message, segment) ==
    LET at == {k \in 1..Len(message) : message[k] = segment}
    IN  IF at = {} THEN <<>>
        ELSE SubSeq(message, (CHOOSE k \in at : \A j \in at : k <= j) + 1, Len(message))

\* The message up to the first occurrence of a segment.
Before(message, segment) ==
    LET at == {k \in 1..Len(message) : message[k] = segment}
    IN  IF at = {} THEN message
        ELSE SubSeq(message, 1, (CHOOSE k \in at : \A j \in at : k <= j) - 1)

\* The lines of a text.
RECURSIVE LinesOf(_)
LinesOf(text) ==
    IF \A k \in 1..Len(text) : text[k] # "\n" THEN <<text>>
    ELSE <<Before(text, "\n")>> \o LinesOf(After(text, "\n"))

\* A field path in dotted form; 'root' for the top level.
Dotted(path) ==
    IF path = <<>> THEN <<"root">>
    ELSE [k \in 1..(2 * Len(path) - 1) |->
            IF k % 2 = 1 THEN path[(k + 1) \div 2] ELSE "."]

Broken(condition, path) == IF condition THEN {path} ELSE {}
NotA(v, key, kind) == HasKey(v, key) /\ Get(v, key).kind # kind

\* The rules of the configuration shape a value breaks, each named by the
\* path of the field it is about: version non-empty; optional name and
\* description strings; settings a record with a positive timeout, boolean
\* flags and a valid baseUrl; commands a non-empty sequence of records, each
\* with a non-empty command name and an optional description string.
BrokenRules(v) ==
    IF v.kind # "object" THEN {<<>>}
    ELSE Broken(~HasKey(v, "version") \/ NotA(v, "version", "string")
                   \/ Get(v, "version").str = <<>>, <<"version">>)
         \cup Broken(NotA(v, "name", "string"), <<"name">>)
         \cup Broken(NotA(v, "description", "string"), <<"description">>)
         \cup (IF ~HasKey(v, "settings") THEN {}
               ELSE IF NotA(v, "settings", "object") THEN {<<"settings">>}
               ELSE LET st == Get(v, "settings")
                    IN  Broken(HasKey(st, "timeout")
                                 /\ (NotA(st, "timeout", "number")
                                     \/ Get(st, "timeout").num <= 0),
                               <<"settings", "timeout">>)
                        \cup Broken(NotA(st, "waitForCompletion", "boolean"),
                                    <<"settings", "waitForCompletion">>)
                        \cup Broken(NotA(st, "continueOnError", "boolean"),
                                    <<"settings", "continueOnError">>)
                        \cup Broken(HasKey(st, "baseUrl")
                                      /\ (NotA(st, "baseUrl", "string")
                                          \/ ~IsUrl(Get(st, "baseUrl").str)),
                                    <<"settings", "baseUrl">>))
         \cup (IF ~HasKey(v, "commands") \/ NotA(v, "commands", "array")
               THEN {<<"commands">>}
               ELSE LET cs == Get(v, "commands").items
                    IN  Broken(cs = <<>>, <<"commands">>)
                        \cup UNION {
                           IF cs[k].kind # "object"
                           THEN {<<"commands", ToString(k - 1)>>}
                           ELSE Broken(~HasKey(cs[k], "command")
                                          \/ NotA(cs[k], "command", "string")
                                          \/ Get(cs[k], "command").str = <<>>,
                                       <<"commands", ToString(k - 1), "command">>)
                                \cup Broken(NotA(cs[k], "description", "string"),
                                            <<"commands", ToString(k - 1), "description">>)
                           : k \in 1..Len(cs)})

\* C25 as stated: when validation fails, the one error raised holds, after
\* the prefix 'Configuration validation failed:', exactly one line for each
\* rule the configuration breaks, of the form '<dotted path>: <message>'
\* with 'root' for the top level; k violations give k lines.
C25_Original ==
    outcome.kind = "validation-error" =>
        LET lines == LinesOf(After(outcome.message, ValidationPrefix))
            broken == BrokenRules(outcome.validated)
        IN  /\ outcome.status = "threw"
            /\ \E k \in 1..Len(outcome.message) : outcome.message[k] = ValidationPrefix
            /\ Len(lines) = Cardinality(broken)
            /\ \A l \in 1..Len(lines) :
                  /\ After(lines[l], ": ") # <<>>
                  /\ \E p \in broken : Before(lines[l], ": ") = Dotted(p)
            /\ \A p \in broken :
                  \E l \in 1..Len(lines) : Before(lines[l], ": ") = Dotted(p)

\* ---------------------------------------------------------------- C31
\* The handle an executor is given for a window of the context.
HandleOf(window) == IF window = NoWindow THEN NullWindow ELSE window

\* C31: while execute runs, its current window is the context's window, and
\* the window the executor being awaited was given is the context's window,
\* null when the context has none, however many windows were replaced.
C31_WindowInSync ==
    /\ pc \in {"loop", "awaitExecutor", "resume", "awaitAbort"} =>
           currentWindow = ctx.window
    /\ pc = "awaitExecutor" =>
           calls[Len(calls)].window = HandleOf(ctx.window)

\* An executor runs with the third window of the context: two replacements
\* were made before this dispatch.
C31_Witness ==
    /\ pc = "awaitExecutor"
    /\ ctx.window = "w3"
    /\ calls[Len(calls)].window = "w3"
    /\ Len(ctx.results) >= 2

\* ---------------------------------------------------------------- C32
\* C32: the executor of a command is the one the registry holds for its name
\* at the moment the command is dispatched: every dispatch invokes that
\* executor, and a command is reported unknown only when the registry holds
\* none for its name at that moment, whatever it held when the run started.
C32_LookupAtDispatch ==
    [][/\ Len(calls') = Len(calls) + 1 =>
             /\ registry[config.commands[i + 1]] # NoExecutor
             /\ calls'[Len(calls')].executor = registry[config.commands[i + 1]]
             /\ calls'[Len(calls')].command = config.commands[i + 1]
       /\ (Len(produced') = Len(produced) + 1
           /\ produced'[Len(produced')].by = "unknown") =>
             registry[config.commands[i + 1]] = NoExecutor]_vars

\* The first command was submit and unknown; submit was registered while the
\* run went on, and the second command, submit again, runs that executor.
C32_Witness ==
    /\ pc = "awaitExecutor" /\ i = 1
    /\ config.commands = <<"submit", "submit">>
    /\ produced[1].by = "unknown"
    /\ calls[Len(calls)].executor = "e2"

C34_SuccessMeansComplete ==
    (pc = "done" /\ base = 0) =>
        /\ ret.success =>
              /\ Len(RetResults) = ret.totalCommands
              /\ ret.totalCommands = N
              /\ \A p \in 1..Len(RetResults) : RetResults[p].success
              /\ \A p \in 1..N : produced[p].command = config.commands[p]
        /\ Len(RetResults) < ret.totalCommands =>
              /\ ~ret.success
              /\ Len(RetResults) >= 1
              /\ ~RetResults[Len(RetResults)].success

\* A returned run of two commands, both attempted and successful, the first
\* of which replaced the window.
C34_Witness ==
    /\ pc = "done" /\ base = 0
    /\ ret.success /\ ret.totalCommands = 2
    /\ Len(RetResults) = 2
    /\ RetResults[1].newWindow # NoWindow

RECURSIVE OnePass(_, _, _)
OnePass(in, out, e) ==
    CASE in.kind = "string" -> out = Str(Expanded(in.str, 1, e))
      [] in.kind = "array" ->
           /\ out.kind = "array"
           /\ Len(out.items) = Len(in.items)
           /\ \A k \in 1..Len(in.items) : OnePass(in.items[k], out.items[k], e)
      [] in.kind = "object" ->
           /\ out.kind = "object"
           /\ \A j \in 1..Len(out.keys) :
                 /\ HasKey(in, out.keys[j])
                 /\ OnePass(Get(in, out.keys[j]), out.items[j], e)
      [] OTHER -> out = in

\* C36: interpolation is a single pass.  Whether a call fails depends on the
\* placeholders of the value it is given only, never on text that comes
\* from the environment; what it returns holds the environment's text as it
\* is, placeholders in it included; and the keys of records are not
\* rewritten.
C36_SinglePass ==
    (outcome.status # "none"
     /\ (input.entry = "interpolateEnv" => input.value.kind = "string")) =>
        /\ outcome.status = "returned" <=>
              \A x \in PlaceholderNames(input.value) : IsSet(env, x)
        /\ outcome.status = "returned" =>
              OnePass(input.value, outcome.value, env)
        /\ outcome.status = "threw" =>
              outcome.message[2] \in PlaceholderNames(input.value)

\* B holds 'x${getenv:A}' and A is unset: the command that refers to B came
\* back with that text as its value, unexpanded, and the call did not fail.
C36_Witness ==
    /\ input.entry = "interpolateConfig"
    /\ input.value = cFillEnv
    /\ ~env["A"].set
    /\ env["B"] = EnvSet(<<Lit("x"), Ph("A")>>)
    /\ outcome.status = "returned"
    /\ Get(outcome.value, "value").str = <<Lit("p="), Lit("x"), Ph("A")>>

\* ------------------------------------- two executeOperation calls in flight
\* JavaScript runs one call at a time; a call gives way only where it awaits
\* (executor.ts:39, 49) or when it has settled.  The variables of execute
\* and of the load hold the call that is running now, peer holds the other.
\* The registry, the request state objects, process.env and the caller's
\* partial context are the same for both.
ThisCall ==
    [config |-> config, ctx |-> ctx, currentWindow |-> currentWindow,
     i |-> i, result |-> result, pc |-> pc, ret |-> ret, base |-> base,
     calls |-> calls, produced |-> produced, pending |-> pending,
     released |-> released, abortFailed |-> abortFailed, input |-> input,
     outcome |-> outcome]

\* An array holds what its last writer left in it: a context that holds the
\* array written through context w sees w's results.
SeenThrough(c, w) ==
    IF c.resultsId = w.resultsId /\ c.resultsId # NoArray
    THEN [c EXCEPT !.results = w.results]
    ELSE c

\* The call has given way: it has not been made yet, is suspended at an
\* await, or has settled.
Yielded(call) ==
    \/ call.pc \in Suspended \cup {"done", "rejected"}
    \/ call.pc = "idle" /\ call.outcome.status \in {"none", "threw"}

\* The call has something left to do.
Runnable(call) ==
    \/ call.pc \in Suspended
    \/ /\ call.pc = "idle"
       /\ call.outcome.status = "none"
       /\ call.input.entry = "executeOperation"

\* The event loop goes on with the other call.
Switch ==
    /\ Yielded(ThisCall)
    /\ Runnable(peer)
    /\ peer' = ThisCall
    /\ config' = peer.config
    /\ ctx' = SeenThrough(peer.ctx, ctx)
    /\ currentWindow' = peer.currentWindow
    /\ i' = peer.i
    /\ result' = peer.result
    /\ pc' = peer.pc
    /\ ret' = peer.ret
    /\ base' = peer.base
    /\ calls' = peer.calls
    /\ produced' = peer.produced
    /\ pending' = peer.pending
    /\ released' = peer.released
    /\ abortFailed' = peer.abortFailed
    /\ input' = peer.input
    /\ outcome' = peer.outcome
    /\ UNCHANGED <<registry, heap, schemaModule, env, regLog, caller>>

\* The two calls: one of fill commands, one of submit commands, so that a
\* result tells which call it was produced for.
ConcurrentSettings == {Absent, Obj(<<"continueOnError">>, <<Bool(TRUE)>>)}
OperationInput(st, l) ==
    In("executeOperation", "object", FALSE, "ok",
       Record(<<"version", "settings", "commands">>, <<TextOf("1"), st, Arr(l)>>))
FirstInputs ==
    {OperationInput(st, l) : st \in ConcurrentSettings,
                             l \in {<<cFill>>, <<cFill, cFill>>}}
SecondInputs ==
    {OperationInput(st, l) : st \in ConcurrentSettings,
                             l \in {<<cSubmitExtra>>, <<cSubmitExtra, cSubmitExtra>>}}

\* executeOperation(context, a) and executeOperation(context, b) are about
\* to be called with the same partial context.
ConcurrentInit ==
    /\ registry = [n \in CommandNames |->
                     IF n \in {"navigate", "fill"} THEN "e1" ELSE NoExecutor]
    /\ config = NoConfig
    /\ ctx = BlankContext
    /\ ExecuteNotCalled
    /\ input \in FirstInputs
    /\ peer \in {[NoCall EXCEPT !.input = b] : b \in SecondInputs}
    /\ caller = PlainCaller
    /\ schemaModule = "generic"
    /\ env = [x \in VarNames |-> EnvUnset]
    /\ outcome = NoOutcome
    /\ regLog = <<>>

ConcurrentNext ==
    \/ ExecuteOperationLoads
    \/ ExecuteOperationExecutes
    \/ Running
    \/ Switch

SpecConcurrent == ConcurrentInit /\ [][ConcurrentNext]_vars

\* ---------------------------------------------------------------- C37
\* The results a call holds are the results produced for its own commands,
\* in the order of its own configuration.
HoldsItsOwnResults(call) ==
    /\ Len(call.ctx.results) \in {Len(call.produced), Len(call.produced) - 1}
    /\ call.pc \in {"done", "awaitAbort"} =>
          Len(call.ctx.results) = Len(call.produced)
    /\ \A k \in 1..Len(call.ctx.results) :
          /\ call.ctx.results[k] = call.produced[k].result
          /\ call.produced[k].index = k - 1
          /\ call.produced[k].command = call.config.commands[k]
          /\ call.ctx.results[k].command = call.config.commands[k]

\* No result the call holds is a result of a command of the other call.
NoneOfTheOther(call, o) ==
    \A k \in 1..Len(call.ctx.results), j \in 1..Len(o.config.commands) :
        call.ctx.results[k].command # o.config.commands[j]

\* C37: of two executeOperation calls in flight at once with the same
\* partial context, each has a results array of its own, and the results
\* each returns are exactly those of its own commands, in its own order;
\* no result of the other call is among them.
C37_OwnResultsPerCall ==
    /\ HoldsItsOwnResults(ThisCall)
    /\ HoldsItsOwnResults(peer)
    /\ (ctx.resultsId # NoArray /\ peer.ctx.resultsId # NoArray)
          => ctx.resultsId # peer.ctx.resultsId
    /\ NoneOfTheOther(ThisCall, peer)
    /\ NoneOfTheOther(peer, ThisCall)
    /\ pc = "done" =>
          RetResults = [k \in 1..Len(produced) |-> produced[k].result]

\* One call has returned two results while the other, made with the same
\* partial context, is suspended with a result of its own already kept.
C37_Witness ==
    /\ pc = "done"
    /\ config.commands = <<"fill", "fill">>
    /\ Len(RetResults) = 2
    /\ RetResults[2].success
    /\ peer.pc = "awaitExecutor"
    /\ peer.i = 1
    /\ Len(peer.ctx.results) = 1
    /\ peer.ctx.results[1].command = "submit"
    /\ peer.ctx.resultsId # ctx.resultsId

====
